---- MODULE Spec2Model ----
(***************************************************************************)
(* Graph-Web-Agent: task-graph validation and ordering, dual verification, *)
(* the per-node execution loop, the rollback manager and the no-progress   *)
(* detector, modelled from src/src/**.                                     *)
(*                                                                         *)
(* Four specifications share the module:                                   *)
(*   SpecGraph   GraphValidator.validate / get_topological_order applied   *)
(*               to bounded task graphs                                    *)
(*   SpecVerify  DualVerifier.verify applied to bounded check outcomes     *)
(*   SpecRB      RollbackManager driven by arbitrary call sequences        *)
(*   Spec        GraphExecutor.execute passes over a task graph, with the  *)
(*               rollback manager, router counters and detector it owns    *)
(***************************************************************************)
EXTENDS Integers, Sequences, FiniteSets, TLC

\* ------------------------------------------------------------------ bounds
MaxId == 3
MaxNodes == 3
MaxEdges == 2
MaxFields == 2
MaxKeywords == 2
MaxSmallCapacity == 2
MaxSaves == 11
MaxRollbacks == 1
MaxStepsBack == 2
MaxDom == 2
MaxPasses == 2
SmallStepBudget == 2
MaxFailures == 3
MaxRouteCalls == 1
MaxRecordCalls == 1
MaxRecorded == 6
SmallUpgradeThreshold == 2
SmallMaxAttempts == 1

RunnerMaxNodes == 2

MaxTasks == 2

NodeIds == 1..MaxId

\* ----------------------------------------------------------------- state
\* SpecGraph: the submitted task graph, the operation applied to it, the
\* result of validate and of get_topological_order
VARIABLES task_graph, gop, vres, ores

\* SpecVerify: what verify reads, what it returns, whether it ran
VARIABLES vin, vout, vpc

\* RollbackManager: capacity, checkpoint list, audit list; in SpecRB also the
\* number of saves so far, the last call with its return value and the set
\* of node ids saved so far
VARIABLES max_checkpoints, checkpoints, rollback_history, rb_saves, rb_call,
          rb_ever

\* GraphExecutor and the ExecutionContext of the running pass: the step
\* budget, the position in execute, the number of execute calls, the node
\* order and loop index, the context's fields, the returned result, the
\* detector window, the router's failure counters; performed and saved
\* record the nodes acted on and checkpointed in the current pass
VARIABLES max_steps, pc, passes, topo_order, idx, current_node, node_states,
          node_results, page_state, step_count, result, dom_hashes,
          failure_counts, performed, saved

\* LocalRepairEngine applied to bounded inputs: the arguments of
\* classify_failure, the arguments of one planning step of a repair attempt,
\* the operation applied and what it returned
VARIABLES cin, pin, eop, eout

gvars == <<task_graph, gop, vres, ores>>

vvars == <<vin, vout, vpc>>

rbvars == <<max_checkpoints, checkpoints, rollback_history, rb_saves, rb_call,
            rb_ever>>

evars == <<max_steps, pc, passes, topo_order, idx, current_node, node_states,
           node_results, page_state, step_count, result, dom_hashes,
           failure_counts, performed, saved>>

\* CostAwareRouter: the escalation threshold, the call counters, the last call
\* with its arguments and what it returned; rt_streak counts a node's
\* record_failure calls since its last record_success, rt_peak is the highest
\* value rt_streak ever had; stats_dict is the dict a get_stats call returned
VARIABLES upgrade_threshold, stats, rt_call, rt_peak, rt_streak, stats_dict

\* run_task and _attempt_repair: the position in them, the compiled graph,
\* max_repair_per_node, the first pass's failure result, the value run_task
\* returns, the classified failure type, the attempt index, what each attempt
\* did, EnvironmentReset.initial_state, and the number of run_task calls the
\* runner has started
VARIABLES cpc, full_graph, max_attempts, initial_result, run_result, classified,
          attempt_no, attempts_log, initial_state, task_no

\* a NoProgressDetector on its own: its window_size and every digest recorded
\* since construction or the last reset (dom_hashes is the detector's list)
VARIABLES det_window, recorded

envars == <<cin, pin, eop, eout>>

dvars == <<det_window, recorded>>

cvars == <<cpc, full_graph, max_attempts, initial_result, run_result, classified,
           attempt_no, attempts_log, initial_state, task_no>>

rtvars == <<upgrade_threshold, stats, rt_call, rt_peak, rt_streak, stats_dict>>

\* the components added after the executor
xvars == <<envars, rtvars, cvars, dvars>>

vars == <<gvars, vvars, rbvars, evars, xvars>>

\* what the steps of one specification leave alone
GraphFrame == UNCHANGED <<vvars, rbvars, evars, xvars>>

VerifyFrame == UNCHANGED <<gvars, rbvars, evars, xvars>>

RBFrame == UNCHANGED <<gvars, vvars, evars, xvars>>

ExecFrame ==
    UNCHANGED <<task_graph, gop, vres, ores, vvars, rb_saves, rb_call, rb_ever,
                xvars>>

EngineFrame == UNCHANGED <<gvars, vvars, rbvars, evars, rtvars, cvars, dvars>>

RouterFrame ==
    UNCHANGED <<gvars, vvars, rbvars, envars, cvars, dvars, max_steps, pc, passes, topo_order,
                idx, current_node, node_states, node_results, page_state,
                step_count, result, dom_hashes, performed, saved>>

\* ------------------------------------------------------- generic helpers
Range(s) == {s[i] : i \in 1..Len(s)}

SeqsUpTo(S, n) == UNION {[1..k -> S] : k \in 0..n}

IndexOf(s, x) == IF \E i \in 1..Len(s) : s[i] = x
                 THEN CHOOSE i \in 1..Len(s) : s[i] = x /\ \A j \in 1..(i-1) : s[j] # x
                 ELSE 0

Max2(a, b) == IF a >= b THEN a ELSE b

Min2(a, b) == IF a <= b THEN a ELSE b

\* ------------------------------------------------------------ validator.py
VALID_NODE_TYPES == {"NAVIGATE", "COLLECT", "EXTRACT", "COMPUTE",
                     "ACT", "VERIFY", "ITERATE", "BRANCH"}

REQUIRED_NODE_FIELDS == {"id", "type", "goal", "predicate"}

\* graph[u] of the adjacency defaultdict: the targets of u's edges, in edge order
RECURSIVE Adj(_, _)
Adj(es, u) ==
    IF es = <<>> THEN <<>>
    ELSE IF Head(es)[1] = u THEN <<Head(es)[2]>> \o Adj(Tail(es), u)
    ELSE Adj(Tail(es), u)

\* in_degree[v] after the edge loop: one increment per edge into v
RECURSIVE InDegree(_, _)
InDegree(es, v) ==
    IF es = <<>> THEN 0
    ELSE (IF Head(es)[2] = v THEN 1 ELSE 0) + InDegree(Tail(es), v)

\* _validate_nodes: "ok" or the kind of the first error met, node by node
RECURSIVE validate_nodes_from(_, _, _)
validate_nodes_from(ns, i, node_ids) ==
    IF i > Len(ns) THEN "ok"
    ELSE IF REQUIRED_NODE_FIELDS \ ns[i].keys # {} THEN "missing-field"
    ELSE IF ns[i].id \in node_ids THEN "duplicate-id"
    ELSE IF ns[i].type \notin VALID_NODE_TYPES THEN "invalid-type"
    ELSE validate_nodes_from(ns, i + 1, node_ids \cup {ns[i].id})

_validate_nodes(ns) ==
    IF ns = <<>> THEN "no-nodes" ELSE validate_nodes_from(ns, 1, {})

\* _validate_edges: "ok" or the kind of the first error met, edge by edge
RECURSIVE validate_edges_from(_, _, _)
validate_edges_from(es, i, node_ids) ==
    IF i > Len(es) THEN "ok"
    ELSE IF Len(es[i]) # 2 THEN "edge-format"
    ELSE IF es[i][1] \notin node_ids THEN "dangling-edge"
    ELSE IF es[i][2] \notin node_ids THEN "dangling-edge"
    ELSE validate_edges_from(es, i + 1, node_ids)

_validate_edges(es, ns) ==
    validate_edges_from(es, 1, {ns[i].id : i \in 1..Len(ns)})

\* has_cycle(node): depth-first search threading visited and rec_stack;
\* st = [visited, rec_stack, found]
RECURSIVE has_cycle(_, _, _)
RECURSIVE has_cycle_scan(_, _, _, _, _)
has_cycle_scan(es, node, nbrs, k, st) ==
    IF k > Len(nbrs)
    THEN [st EXCEPT !.rec_stack = st.rec_stack \ {node}, !.found = FALSE]
    ELSE IF nbrs[k] \notin st.visited
         THEN LET r == has_cycle(es, nbrs[k], st)
              IN  IF r.found THEN r ELSE has_cycle_scan(es, node, nbrs, k + 1, r)
         ELSE IF nbrs[k] \in st.rec_stack
              THEN [st EXCEPT !.found = TRUE]
              ELSE has_cycle_scan(es, node, nbrs, k + 1, st)

has_cycle(es, node, st) ==
    has_cycle_scan(es, node, Adj(es, node), 1,
                   [st EXCEPT !.visited = st.visited \cup {node},
                              !.rec_stack = st.rec_stack \cup {node}])

\* _validate_topology with visited shared but the search started at the
\* first declared node only
_validate_topology_first_only(ns, es) ==
    IF ns = <<>> THEN TRUE
    ELSE ~has_cycle(es, ns[1].id,
                    [visited |-> {}, rec_stack |-> {}, found |-> FALSE]).found

\* _validate_topology: TRUE iff no has_cycle call from an unvisited node finds a cycle
RECURSIVE validate_topology_from(_, _, _, _)
validate_topology_from(ns, es, i, st) ==
    IF i > Len(ns) THEN TRUE
    ELSE IF ns[i].id \in st.visited THEN validate_topology_from(ns, es, i + 1, st)
    ELSE LET r == has_cycle(es, ns[i].id, st)
         IN  IF r.found THEN FALSE ELSE validate_topology_from(ns, es, i + 1, r)

_validate_topology(ns, es) ==
    validate_topology_from(ns, es, 1, [visited |-> {}, rec_stack |-> {}, found |-> FALSE])

\* start nodes of _validate_reachability: zero in-degree, in declaration order
RECURSIVE ZeroInDegree(_, _, _)
ZeroInDegree(ns, es, i) ==
    IF i > Len(ns) THEN <<>>
    ELSE (IF InDegree(es, ns[i].id) = 0 THEN <<ns[i].id>> ELSE <<>>)
         \o ZeroInDegree(ns, es, i + 1)

NoStartNode(ns, es) == ZeroInDegree(ns, es, 1) = <<>>

start_nodes(ns, es) ==
    IF NoStartNode(ns, es) THEN <<ns[1].id>> ELSE ZeroInDegree(ns, es, 1)

\* the unvisited neighbours a BFS step appends to the queue
RECURSIVE Unreached(_, _)
Unreached(nbrs, reachable) ==
    IF nbrs = <<>> THEN <<>>
    ELSE (IF Head(nbrs) \notin reachable THEN <<Head(nbrs)>> ELSE <<>>)
         \o Unreached(Tail(nbrs), reachable)

\* a search that stops at the start nodes
bfs_reachable_start_only(es, queue, reachable) == reachable \cup Range(queue)

\* the BFS loop of _validate_reachability
RECURSIVE bfs_reachable(_, _, _)
bfs_reachable(es, queue, reachable) ==
    IF queue = <<>> THEN reachable
    ELSE IF Head(queue) \in reachable THEN bfs_reachable(es, Tail(queue), reachable)
    ELSE LET r == reachable \cup {Head(queue)}
         IN  bfs_reachable(es, Tail(queue) \o Unreached(Adj(es, Head(queue)), r), r)

_validate_reachability(ns, es) ==
    IF ns = <<>> THEN TRUE
    ELSE {ns[i].id : i \in 1..Len(ns)} \ bfs_reachable(es, start_nodes(ns, es), {}) = {}

\* a fix that removes every edge
_fix_topology_drop_edges(g) == [g EXCEPT !.edges = <<>>]

\* _fix_topology: leaves the task graph as it is and records a warning
_fix_topology(g) == g

\* validate: [valid, errors, warnings]
validate(g, af) ==
    LET ne == _validate_nodes(g.nodes)
        ee == _validate_edges(g.edges, g.nodes)
        fixed == _fix_topology(g)
        reach(ns, es, errs, warns) ==
            LET w == IF NoStartNode(ns, es) THEN warns \o <<"no-start-node">> ELSE warns
            IN  IF _validate_reachability(ns, es)
                THEN [valid |-> TRUE, errors |-> errs, warnings |-> w]
                ELSE [valid |-> FALSE, errors |-> errs \o <<"unreachable-node">>,
                      warnings |-> w]
    IN  IF ne # "ok" THEN [valid |-> FALSE, errors |-> <<ne>>, warnings |-> <<>>]
        ELSE IF ee # "ok" THEN [valid |-> FALSE, errors |-> <<ee>>, warnings |-> <<>>]
        ELSE IF _validate_topology(g.nodes, g.edges)
             THEN reach(g.nodes, g.edges, <<>>, <<>>)
             ELSE IF af
                  THEN IF _validate_topology(fixed.nodes, fixed.edges)
                       THEN reach(fixed.nodes, fixed.edges, <<>>, <<"auto-fix">>)
                       ELSE [valid |-> FALSE,
                             errors |-> <<"cycle", "auto-fix-exhausted">>,
                             warnings |-> <<"auto-fix">>]
                  ELSE [valid |-> FALSE, errors |-> <<"cycle">>, warnings |-> <<>>]

\* keys of the in_degree dict in insertion order: the declared ids (first
\* occurrence), then every edge target that is no declared id
RECURSIVE Dedup(_, _)
Dedup(s, seen) ==
    IF s = <<>> THEN <<>>
    ELSE IF Head(s) \in seen THEN Dedup(Tail(s), seen)
    ELSE <<Head(s)>> \o Dedup(Tail(s), seen \cup {Head(s)})

InDegreeKeys(ns, es) ==
    Dedup([i \in 1..Len(ns) |-> ns[i].id] \o [i \in 1..Len(es) |-> es[i][2]], {})

\* kahn_release with the decrement not stored back into in_degree
RECURSIVE kahn_release_no_store(_, _, _, _)
kahn_release_no_store(nbrs, k, deg, queue) ==
    IF k > Len(nbrs) THEN [deg |-> deg, queue |-> queue]
    ELSE kahn_release_no_store(nbrs, k + 1, deg,
                               IF deg[nbrs[k]] - 1 = 0
                               THEN Append(queue, nbrs[k]) ELSE queue)

\* kahn_release putting a freed neighbour at the front of the queue
RECURSIVE kahn_release_front(_, _, _, _)
kahn_release_front(nbrs, k, deg, queue) ==
    IF k > Len(nbrs) THEN [deg |-> deg, queue |-> queue]
    ELSE LET d == [deg EXCEPT ![nbrs[k]] = deg[nbrs[k]] - 1]
         IN  kahn_release_front(nbrs, k + 1, d,
                                IF d[nbrs[k]] = 0 THEN <<nbrs[k]>> \o queue ELSE queue)

\* one pass over graph[node]: decrement each neighbour, append it when it reaches 0
RECURSIVE kahn_release(_, _, _, _)
kahn_release(nbrs, k, deg, queue) ==
    IF k > Len(nbrs) THEN [deg |-> deg, queue |-> queue]
    ELSE LET d == [deg EXCEPT ![nbrs[k]] = deg[nbrs[k]] - 1]
         IN  kahn_release(nbrs, k + 1, d,
                          IF d[nbrs[k]] = 0 THEN Append(queue, nbrs[k]) ELSE queue)

\* the while loop of Kahn's algorithm
RECURSIVE kahn_loop(_, _, _, _)
kahn_loop(es, queue, deg, emitted) ==
    IF queue = <<>> THEN emitted
    ELSE LET r == kahn_release(Adj(es, Head(queue)), 1, deg, Tail(queue))
         IN  kahn_loop(es, r.queue, r.deg, Append(emitted, Head(queue)))

\* get_topological_order: [ok, order]; ok = FALSE stands for ValidationError
get_topological_order(ns, es) ==
    LET keys == InDegreeKeys(ns, es)
        deg == [k \in Range(keys) |-> InDegree(es, k)]
        queue == SelectSeq(keys, LAMBDA k : deg[k] = 0)
        emitted == kahn_loop(es, queue, deg, <<>>)
    IN  IF Len(emitted) # Len(ns)
        THEN [ok |-> FALSE, order |-> <<>>]
        ELSE [ok |-> TRUE, order |-> emitted]

\* ------------------------------------------------ SpecGraph: the validator
\* the 8 kinds, one per declared id in turn
NodeTypeSeq == <<"NAVIGATE", "COLLECT", "EXTRACT", "COMPUTE",
                 "ACT", "VERIFY", "ITERATE", "BRANCH">>

DefaultType(id) == NodeTypeSeq[((id - 1) % 8) + 1]

\* a node dict: its id and type values and the set of keys it carries
MkNode(id, defect) ==
    [id |-> id,
     type |-> IF defect = "bad-type" THEN "UNKNOWN_KIND" ELSE DefaultType(id),
     keys |-> IF defect = "no-predicate"
              THEN {"id", "type", "goal", "params"}
              ELSE {"id", "type", "goal", "predicate", "idempotent", "params"}]

\* node lists of up to MaxNodes declared ids (repeats allowed), at most one
\* of which lacks a required field or has a type outside the 8 kinds
GraphNodeLists ==
    UNION {
        {[i \in 1..k |-> MkNode(ids[i], IF d = i THEN "no-predicate"
                                        ELSE IF d = k + i THEN "bad-type"
                                        ELSE "none")]
            : ids \in [1..k -> NodeIds], d \in 0..(2 * k)}
        : k \in 0..MaxNodes}

GraphEdgeLists == SeqsUpTo(NodeIds \X NodeIds, MaxEdges)

NoResult == [valid |-> FALSE, errors |-> <<>>, warnings |-> <<>>]

NoOrder == [ok |-> FALSE, order |-> <<>>]

InitGraph ==
    /\ task_graph \in [nodes : GraphNodeLists, edges : GraphEdgeLists]
    /\ gop = "input"
    /\ vres = NoResult
    /\ ores = NoOrder

\* GraphValidator(auto_fix=af).validate(task_graph)
Validate(af) ==
    /\ gop = "input"
    /\ gop' = IF af THEN "validated-autofix" ELSE "validated"
    /\ vres' = validate(task_graph, af)
    /\ UNCHANGED <<task_graph, ores>>
    /\ GraphFrame

\* GraphValidator().get_topological_order(nodes, edges)
GetTopologicalOrder ==
    /\ gop = "input"
    /\ gop' = "ordered"
    /\ ores' = get_topological_order(task_graph.nodes, task_graph.edges)
    /\ UNCHANGED <<task_graph, vres>>
    /\ GraphFrame

NextGraph == (\E af \in BOOLEAN : Validate(af)) \/ GetTopologicalOrder

\* -------------------------------------------------------------- rollback.py
\* Python's None where a checkpoint, a step or a node id is expected
None == -1

\* the None a rollback returns in place of a Checkpoint
NoCheckpoint == [node_id |-> None, step |-> None, page_state |-> None,
                 browser_state |-> None]

\* save_checkpoint evicting the newest entry instead of the oldest
save_checkpoint_drop_newest(cps, cap, cp) ==
    LET appended == Append(cps, cp)
    IN  IF Len(appended) > cap THEN SubSeq(appended, 1, Len(appended) - 1)
        ELSE appended

\* RollbackManager.save_checkpoint: append, then drop the oldest when over capacity
save_checkpoint(cps, cap, cp) ==
    LET appended == Append(cps, cp)
    IN  IF Len(appended) > cap THEN Tail(appended) ELSE appended

\* the scan run oldest-to-newest: the first match instead of the last
FirstIndexOf(cps, node_id) ==
    IF \E i \in 1..Len(cps) : cps[i].node_id = node_id
    THEN CHOOSE i \in 1..Len(cps) :
            /\ cps[i].node_id = node_id
            /\ \A j \in 1..(i - 1) : cps[j].node_id # node_id
    ELSE 0

\* the index rollback_to_node's backward scan stops at, 0 when it runs off the list
LastIndexOf(cps, node_id) ==
    IF \E i \in 1..Len(cps) : cps[i].node_id = node_id
    THEN CHOOSE i \in 1..Len(cps) :
            /\ cps[i].node_id = node_id
            /\ \A j \in (i + 1)..Len(cps) : cps[j].node_id # node_id
    ELSE 0

\* rollback_to_node writing its audit record before the scan, hit or miss
rollback_to_node_audit_first(cps, hist, node_id) ==
    LET i == LastIndexOf(cps, node_id)
        logged == Append(hist, [from_step |-> IF cps = <<>> THEN 0
                                              ELSE cps[Len(cps)].step,
                                to_step |-> IF i = 0 THEN None ELSE cps[i].step,
                                to_node |-> node_id,
                                steps_back |-> None])
    IN  IF i = 0
        THEN [ret |-> NoCheckpoint, checkpoints |-> cps, rollback_history |-> logged]
        ELSE [ret |-> cps[i], checkpoints |-> SubSeq(cps, 1, i),
              rollback_history |-> logged]

\* RollbackManager.rollback_to_node: [ret, checkpoints, rollback_history]
rollback_to_node(cps, hist, node_id) ==
    LET i == LastIndexOf(cps, node_id)
    IN  IF i = 0
        THEN [ret |-> NoCheckpoint, checkpoints |-> cps, rollback_history |-> hist]
        ELSE [ret |-> cps[i],
              checkpoints |-> SubSeq(cps, 1, i),
              rollback_history |->
                  Append(hist, [from_step |-> cps[Len(cps)].step,
                                to_step |-> cps[i].step,
                                to_node |-> node_id,
                                steps_back |-> None])]

\* rollback_steps that goes back one step less
rollback_steps_one_less(cps, hist, steps) ==
    IF cps = <<>> \/ steps <= 0
    THEN [ret |-> NoCheckpoint, checkpoints |-> cps, rollback_history |-> hist]
    ELSE LET target_index == Max2(0, Len(cps) - steps) + 1
         IN  [ret |-> cps[target_index],
              checkpoints |-> SubSeq(cps, 1, target_index),
              rollback_history |->
                  Append(hist, [from_step |-> cps[Len(cps)].step,
                                to_step |-> cps[target_index].step,
                                to_node |-> None,
                                steps_back |-> steps])]

\* RollbackManager.rollback_steps: [ret, checkpoints, rollback_history]
rollback_steps(cps, hist, steps) ==
    IF cps = <<>> \/ steps <= 0
    THEN [ret |-> NoCheckpoint, checkpoints |-> cps, rollback_history |-> hist]
    ELSE LET target_index == Max2(0, Len(cps) - steps - 1) + 1
         IN  [ret |-> cps[target_index],
              checkpoints |-> SubSeq(cps, 1, target_index),
              rollback_history |->
                  Append(hist, [from_step |-> cps[Len(cps)].step,
                                to_step |-> cps[target_index].step,
                                to_node |-> None,
                                steps_back |-> steps])]

\* NoProgressDetector.record_dom_state: the digest is md5(str(dom_elements)), a
\* function of the element list alone; element lists are the values 0..MaxDom
\* (0 the empty list), lists with different text having different digests
DomDigest(dom_elements) == dom_elements

record_dom_state(hashes, w, dom_elements) ==
    LET appended == Append(hashes, DomDigest(dom_elements))
    IN  IF Len(appended) > w THEN Tail(appended) ELSE appended

\* detect_no_progress without the guard on the number of recorded digests
detect_no_progress_unguarded(hashes, w) == Cardinality(Range(hashes)) = 1

\* NoProgressDetector.detect_no_progress
detect_no_progress(hashes, w) ==
    IF Len(hashes) < w THEN FALSE
    ELSE Cardinality(Range(hashes)) = 1

\* ---------------------------------------------------------------- router.py
\* failure_counts.get(node_id, 0)
FailureCount(fc, node_id) == IF node_id \in DOMAIN fc THEN fc[node_id] ELSE 0

\* CostAwareRouter.record_failure
record_failure(fc, node_id) ==
    [k \in DOMAIN fc \cup {node_id} |->
        IF k = node_id THEN FailureCount(fc, node_id) + 1 ELSE fc[k]]

\* CostAwareRouter.record_success: resets the counter of a node that has one
record_success(fc, node_id) ==
    IF node_id \in DOMAIN fc THEN [fc EXCEPT ![node_id] = 0] ELSE fc

\* ------------------------------------------------------- dual_verifier.py
\* Scores are integers in units of 1/Scale; weights and the threshold are in
\* thousandths, so a confidence is in units of 1/(1000 * Scale).
Scale == 6 * 1000

\* thousandths: hard_check_weight 0.6, soft_check_weight 0.3,
\* consistency_weight 0.1, confidence_threshold 0.7
w_hard == 600
w_soft == 300
w_consistency == 100
threshold == 700

\* _check_url_pattern: needs a non-empty URL in which an extracted pattern occurs
_check_url_pattern(inp) == inp.url # "empty" /\ inp.url_hit

\* _check_title_match: the outcome of the title-pattern search
_check_title_match(inp) == inp.title_match

\* _check_dom_elements
_check_dom_elements(inp) == IF ~inp.has_required THEN TRUE ELSE inp.dom_nonempty

\* the type-specific 0.1 of _hard_check
HardTypeSignal(inp) ==
    IF inp.node_type = "NAVIGATE" THEN inp.url = "page"
    ELSE IF inp.node_type = "COLLECT" THEN inp.dom_nonempty
    ELSE IF inp.node_type = "EXTRACT" THEN inp.extracted_nonempty
    ELSE IF inp.node_type = "ACT" THEN inp.state_changed
    ELSE FALSE

\* _hard_check, in units of 1/Scale
_hard_check(inp) ==
    LET score == (IF _check_url_pattern(inp) THEN (2 * Scale) \div 10 ELSE 0)
               + (IF _check_title_match(inp) THEN (15 * Scale) \div 100 ELSE 0)
               + (IF _check_dom_elements(inp) THEN (15 * Scale) \div 100 ELSE 0)
               + (IF HardTypeSignal(inp) THEN Scale \div 10 ELSE 0)
    IN  Min2(score, (6 * Scale) \div 10)

\* _simple_semantic_check: share of the goal's keywords found in the page text
_simple_semantic_check(inp) ==
    IF inp.n_keywords = 0 THEN 0
    ELSE (inp.n_matches * 3 * Scale) \div (10 * inp.n_keywords)

\* _parse_soft_check_response, in hundredths: the first integer of the reply
\* capped at 100, else 80 for a yes and 20 for anything else
_parse_soft_check_response(resp) ==
    IF resp.kind = "number" THEN Min2(resp.value, 100)
    ELSE IF resp.kind = "yes" THEN 80
    ELSE 20

\* _soft_check, in units of 1/Scale
_soft_check(inp) ==
    IF ~inp.llm_client THEN _simple_semantic_check(inp)
    ELSE IF inp.response.kind = "raise" THEN 0
    ELSE (_parse_soft_check_response(inp.response) * 3 * Scale) \div 1000

\* _consistency_check, in units of 1/Scale
_consistency_check(inp) ==
    IF inp.node_type = "EXTRACT"
    THEN IF inp.n_fields > 0 THEN (inp.n_present * Scale) \div (10 * inp.n_fields)
         ELSE IF inp.extracted_nonempty THEN Scale \div 10 ELSE 0
    ELSE IF inp.node_type = "COLLECT"
    THEN IF inp.collected_nonempty THEN Scale \div 10 ELSE 0
    ELSE IF inp.node_type = "COMPUTE"
    THEN IF ~inp.compute_error THEN Scale \div 10 ELSE 0
    ELSE IF inp.node_type = "NAVIGATE"
    THEN IF inp.navigation_success THEN Scale \div 10 ELSE 0
    ELSE 0

\* the weighted sum of verify, in units of 1/(1000 * Scale)
Confidence(hard, soft, cons) == w_hard * hard + w_soft * soft + w_consistency * cons

\* DualVerifier.verify
verify(inp) ==
    LET hard == _hard_check(inp)
        soft == IF inp.tier = "no_llm" THEN 0 ELSE _soft_check(inp)
        cons == _consistency_check(inp)
        conf == Confidence(hard, soft, cons)
    IN  [confidence |-> conf, hard_score |-> hard, soft_score |-> soft,
         consistency_score |-> cons, passed |-> conf >= threshold * Scale]

\* ------------------------------------------------ SpecVerify: the verifier
Merge(a, b) == [k \in DOMAIN a \cup DOMAIN b |-> IF k \in DOMAIN a THEN a[k] ELSE b[k]]

\* what _hard_check reads of the predicate and the page state
HardInputs ==
    [url : {"empty", "blank", "page"}, url_hit : BOOLEAN, title_match : BOOLEAN,
     has_required : BOOLEAN, dom_nonempty : BOOLEAN]

TypeDefaults ==
    [node_type |-> "VERIFY", extracted_nonempty |-> FALSE, state_changed |-> FALSE,
     collected_nonempty |-> FALSE, compute_error |-> FALSE,
     navigation_success |-> FALSE, n_fields |-> 0, n_present |-> 0]

\* the node type with the page-state fields the checks of that type read
TypeInputs ==
    {[TypeDefaults EXCEPT !.node_type = t] : t \in {"VERIFY", "ITERATE", "BRANCH"}}
    \cup {[TypeDefaults EXCEPT !.node_type = "NAVIGATE", !.navigation_success = b]
            : b \in BOOLEAN}
    \cup {[TypeDefaults EXCEPT !.node_type = "COLLECT", !.collected_nonempty = b]
            : b \in BOOLEAN}
    \cup {[TypeDefaults EXCEPT !.node_type = "COMPUTE", !.compute_error = b]
            : b \in BOOLEAN}
    \cup {[TypeDefaults EXCEPT !.node_type = "ACT", !.state_changed = b]
            : b \in BOOLEAN}
    \cup UNION {UNION {
            {[TypeDefaults EXCEPT !.node_type = "EXTRACT", !.n_fields = n,
                                  !.n_present = m, !.extracted_nonempty = b]
                : b \in (IF m > 0 THEN {TRUE} ELSE BOOLEAN)}
            : m \in 0..n} : n \in 0..MaxFields}

\* replies of the oracle: a text with a first integer, a yes, another text, a failure
OracleResponses ==
    {[kind |-> "number", value |-> v] : v \in {0, 85, 100, 250}}
    \cup {[kind |-> k, value |-> 0] : k \in {"yes", "other", "raise"}}

SoftDefaults ==
    [tier |-> "no_llm", llm_client |-> FALSE,
     response |-> [kind |-> "other", value |-> 0], n_keywords |-> 0, n_matches |-> 0]

\* the routed tier (None when no router is used), whether an oracle is
\* configured, and what the soft check then reads
SoftInputs ==
    {SoftDefaults}
    \cup UNION {
            {[SoftDefaults EXCEPT !.tier = t, !.llm_client = TRUE, !.response = r]
                : r \in OracleResponses}
            \cup UNION {
                {[SoftDefaults EXCEPT !.tier = t, !.n_keywords = n, !.n_matches = m]
                    : m \in 0..n} : n \in 0..MaxKeywords}
            : t \in {"none", "small", "large"}}

VerifyInputs ==
    {Merge(Merge(h, t), s) : h \in HardInputs, t \in TypeInputs, s \in SoftInputs}

NoVerification ==
    [confidence |-> 0, hard_score |-> 0, soft_score |-> 0, consistency_score |-> 0,
     passed |-> FALSE]

InitVerify ==
    /\ vin \in VerifyInputs
    /\ vout = NoVerification
    /\ vpc = "input"

\* DualVerifier().verify(node, page_state, tier)
Verify ==
    /\ vpc = "input"
    /\ vpc' = "verified"
    /\ vout' = verify(vin)
    /\ UNCHANGED vin
    /\ VerifyFrame

NextVerify == Verify

\* ------------------------------------------ SpecRB: the rollback manager
\* RollbackManager(max_checkpoints: int = 10)
DefaultMaxCheckpoints == 10

RBCapacities == (1..MaxSmallCapacity) \cup {DefaultMaxCheckpoints}

\* node ids the manager's callers pass in
RBNodeIds == {1, 2}

\* the snapshots are opaque to the manager: it deep-copies and returns them
Checkpoint(node_id, step, ps, bs) ==
    [node_id |-> node_id, step |-> step, page_state |-> ps, browser_state |-> bs]

InitRB ==
    /\ max_checkpoints \in RBCapacities
    /\ checkpoints = <<>>
    /\ rollback_history = <<>>
    /\ rb_saves = 0
    /\ rb_call = [op |-> "init", arg |-> None, ret |-> NoCheckpoint]
    /\ rb_ever = {}

\* save_checkpoint(node_id, step, ...) with step the number of earlier saves
RBSave(node_id) ==
    /\ rb_saves < MaxSaves
    /\ checkpoints' = save_checkpoint(checkpoints, max_checkpoints,
                                      Checkpoint(node_id, rb_saves, 0, 0))
    /\ rb_saves' = rb_saves + 1
    /\ rb_call' = [op |-> "save_checkpoint", arg |-> node_id, ret |-> NoCheckpoint]
    /\ rb_ever' = rb_ever \cup {node_id}
    /\ UNCHANGED <<max_checkpoints, rollback_history>>
    /\ RBFrame

\* rollback_to_node(node_id)
RBRollbackToNode(node_id) ==
    LET r == rollback_to_node(checkpoints, rollback_history, node_id)
    IN  /\ r.ret = NoCheckpoint \/ Len(rollback_history) < MaxRollbacks
        /\ checkpoints' = r.checkpoints
        /\ rollback_history' = r.rollback_history
        /\ rb_call' = [op |-> "rollback_to_node", arg |-> node_id, ret |-> r.ret]
        /\ UNCHANGED <<max_checkpoints, rb_saves, rb_ever>>
        /\ RBFrame

\* rollback_steps(steps)
RBRollbackSteps(steps) ==
    LET r == rollback_steps(checkpoints, rollback_history, steps)
    IN  /\ r.ret = NoCheckpoint \/ Len(rollback_history) < MaxRollbacks
        /\ checkpoints' = r.checkpoints
        /\ rollback_history' = r.rollback_history
        /\ rb_call' = [op |-> "rollback_steps", arg |-> steps, ret |-> r.ret]
        /\ UNCHANGED <<max_checkpoints, rb_saves, rb_ever>>
        /\ RBFrame

NextRB ==
    \/ \E node_id \in RBNodeIds : RBSave(node_id)
    \/ \E node_id \in RBNodeIds : RBRollbackToNode(node_id)
    \/ \E steps \in 0..MaxStepsBack : RBRollbackSteps(steps)

\* ------------------------------------------------- Spec: the graph executor
\* config.get("max_steps", 100)
DefaultMaxSteps == 100

\* NoProgressDetector(window_size=3)
window_size == 3

\* node types of executed graphs: _perform_action replaces dom_elements for a
\* COLLECT node and leaves it alone for every other type
ExecNodeTypes == {"COLLECT", "ACT"}

AllKeys == {"id", "type", "goal", "predicate", "idempotent", "params"}

\* graphs submitted to execute: n declared nodes with ids 1..n and any edge
\* list over NodeIds (cyclic and dangling ones included)
ExecGraphs ==
    UNION {[nodes : {[i \in 1..n |-> [id |-> i, type |-> ty[i], keys |-> AllKeys]]
                        : ty \in [1..n -> ExecNodeTypes]},
            edges : GraphEdgeLists]
           : n \in 1..MaxNodes}

NoExecResult ==
    [kind |-> "none", success |-> FALSE, failed_node |-> None, error |-> "none",
     steps |-> 0]

\* ExecutionContext(task_graph=..., start_time=...): page_state = {}
FreshPageState == [dom_elements |-> 0]

InitExec ==
    /\ task_graph \in ExecGraphs
    /\ max_steps \in {SmallStepBudget, DefaultMaxSteps}
    /\ pc = "idle"
    /\ passes = 0
    /\ topo_order = <<>>
    /\ idx = 0
    /\ current_node = None
    /\ node_states = <<>>
    /\ node_results = <<>>
    /\ page_state = FreshPageState
    /\ step_count = 0
    /\ result = NoExecResult
    /\ dom_hashes = <<>>
    /\ failure_counts = <<>>
    /\ performed = {}
    /\ saved = {}
    /\ max_checkpoints = DefaultMaxCheckpoints
    /\ checkpoints = <<>>
    /\ rollback_history = <<>>

\* _get_node_by_id: index of the first declared node with that id, 0 for None
_get_node_by_id(g, node_id) ==
    IndexOf([i \in 1..Len(g.nodes) |-> g.nodes[i].id], node_id)

\* dict item assignment d[k] = v
SetItem(d, k, v) == [x \in DOMAIN d \cup {k} |-> IF x = k THEN v ELSE d[x]]

\* _create_success_result
_create_success_result(steps) ==
    [kind |-> "success", success |-> TRUE, failed_node |-> None, error |-> "none",
     steps |-> steps]

\* _create_failure_result: error is the node result's reason, a fixed text
\* when the result carries none
_create_failure_result(failed_id, results, steps) ==
    [kind |-> "failure", success |-> FALSE, failed_node |-> failed_id,
     error |-> IF failed_id \in DOMAIN results /\ results[failed_id].reason # "none"
               THEN results[failed_id].reason ELSE "unknown-error",
     steps |-> steps]

\* _create_error_result
_create_error_result(msg, steps) ==
    [kind |-> "error", success |-> FALSE, failed_node |-> None, error |-> msg,
     steps |-> steps]

\* a node_results entry
NodeResult(status, verification, reason, error) ==
    [status |-> status, verification |-> verification, reason |-> reason,
     error |-> error]

RMUnchanged == UNCHANGED <<max_checkpoints, checkpoints, rollback_history>> /\ ExecFrame

\* execute, up to the node loop, when the topological sort succeeds
ExecuteStart ==
    LET t == get_topological_order(task_graph.nodes, task_graph.edges)
    IN  /\ pc \in {"idle", "done"}
        /\ passes < MaxPasses
        /\ t.ok
        /\ passes' = passes + 1
        /\ topo_order' = t.order
        /\ node_states' = [id \in Range(t.order) |-> "pending"]
        /\ node_results' = <<>>
        /\ page_state' = FreshPageState
        /\ step_count' = 0
        /\ current_node' = None
        /\ idx' = 1
        /\ result' = NoExecResult
        /\ performed' = {}
        /\ saved' = {}
        /\ pc' = "loop"
        /\ UNCHANGED <<max_steps, dom_hashes, failure_counts>>
        /\ RMUnchanged

\* execute when get_topological_order raises
ExecuteSortFails ==
    LET t == get_topological_order(task_graph.nodes, task_graph.edges)
    IN  /\ pc \in {"idle", "done"}
        /\ passes < MaxPasses
        /\ ~t.ok
        /\ passes' = passes + 1
        /\ topo_order' = <<>>
        /\ node_states' = <<>>
        /\ node_results' = <<>>
        /\ page_state' = FreshPageState
        /\ step_count' = 0
        /\ current_node' = None
        /\ idx' = 0
        /\ result' = _create_error_result("topological-sort-failed", 0)
        /\ performed' = {}
        /\ saved' = {}
        /\ pc' = "done"
        /\ UNCHANGED <<max_steps, dom_hashes, failure_counts>>
        /\ RMUnchanged

\* the loop is exhausted: every node succeeded
PassSucceeds ==
    /\ pc = "loop"
    /\ idx > Len(topo_order)
    /\ result' = _create_success_result(step_count)
    /\ pc' = "done"
    /\ UNCHANGED <<max_steps, passes, topo_order, idx, current_node, node_states,
                   node_results, page_state, step_count, dom_hashes,
                   failure_counts, performed, saved>>
    /\ RMUnchanged

\* loop head: the step budget is used up
StepBudgetExceeded ==
    /\ pc = "loop"
    /\ idx <= Len(topo_order)
    /\ step_count >= max_steps
    /\ result' = _create_error_result("max-steps-exceeded", step_count)
    /\ pc' = "done"
    /\ UNCHANGED <<max_steps, passes, topo_order, idx, current_node, node_states,
                   node_results, page_state, step_count, dom_hashes,
                   failure_counts, performed, saved>>
    /\ RMUnchanged

\* loop head: the ordered id names no declared node
SkipMissingNode ==
    /\ pc = "loop"
    /\ idx <= Len(topo_order)
    /\ step_count < max_steps
    /\ _get_node_by_id(task_graph, topo_order[idx]) = 0
    /\ idx' = idx + 1
    /\ UNCHANGED <<max_steps, pc, passes, topo_order, current_node, node_states,
                   node_results, page_state, step_count, result, dom_hashes,
                   failure_counts, performed, saved>>
    /\ RMUnchanged

\* StartNode with the budget test off by one (step_count > max_steps aborts)
StartNodePastBudget ==
    /\ pc = "loop"
    /\ idx <= Len(topo_order)
    /\ step_count <= max_steps
    /\ _get_node_by_id(task_graph, topo_order[idx]) # 0
    /\ current_node' = topo_order[idx]
    /\ node_states' = [node_states EXCEPT ![topo_order[idx]] = "running"]
    /\ pc' = "running"
    /\ UNCHANGED <<max_steps, passes, topo_order, idx, node_results, page_state,
                   step_count, result, dom_hashes, failure_counts, performed, saved>>
    /\ RMUnchanged

\* loop head and the first lines of _execute_node: the node is RUNNING
StartNode ==
    /\ pc = "loop"
    /\ idx <= Len(topo_order)
    /\ step_count < max_steps
    /\ _get_node_by_id(task_graph, topo_order[idx]) # 0
    /\ current_node' = topo_order[idx]
    /\ node_states' = [node_states EXCEPT ![topo_order[idx]] = "running"]
    /\ pc' = "running"
    /\ UNCHANGED <<max_steps, passes, topo_order, idx, node_results, page_state,
                   step_count, result, dom_hashes, failure_counts, performed, saved>>
    /\ RMUnchanged

CurrentType == task_graph.nodes[_get_node_by_id(task_graph, current_node)].type

\* page states when the action of any node may replace dom_elements
PageStatesAnyType == {[page_state EXCEPT !.dom_elements = d] : d \in 0..MaxDom}

\* page states _perform_action and _collect_evidence can leave: a COLLECT node
\* stores what the environment returns, other nodes keep dom_elements
PageStatesAfterAction ==
    IF CurrentType = "COLLECT"
    THEN {[page_state EXCEPT !.dom_elements = d] : d \in 0..MaxDom}
    ELSE {page_state}

\* the except branch of _execute_node followed by execute's failure return
FailByException(ps) ==
    /\ node_states' = [node_states EXCEPT ![current_node] = "failed"]
    /\ node_results' = SetItem(node_results, current_node,
                               NodeResult("failed", "absent", "none", "exception"))
    /\ page_state' = ps
    /\ result' = _create_failure_result(current_node, node_results', step_count)
    /\ pc' = "done"

\* the environment raises in _perform_action, _wait_for_stability or
\* _collect_evidence, before or after the action changed the page state
NodeRaises ==
    /\ pc = "running"
    /\ \E ps \in PageStatesAfterAction : FailByException(ps)
    /\ performed' = performed \cup {current_node}
    /\ UNCHANGED <<max_steps, passes, topo_order, idx, current_node, step_count,
                   dom_hashes, failure_counts, saved>>
    /\ RMUnchanged

\* steps 1-4 ran and the detector, fed the new digest, reports no progress
NodeNoProgress ==
    /\ pc = "running"
    /\ \E ps \in PageStatesAfterAction, passed \in BOOLEAN :
        LET h == record_dom_state(dom_hashes, window_size, ps.dom_elements)
        IN  /\ detect_no_progress(h, window_size)
            /\ dom_hashes' = h
            /\ page_state' = ps
            /\ node_results' = SetItem(node_results, current_node,
                   NodeResult("failed", IF passed THEN "passed" ELSE "failed",
                              "no-progress", "none"))
    /\ node_states' = [node_states EXCEPT ![current_node] = "failed"]
    /\ result' = _create_failure_result(current_node, node_results', step_count)
    /\ performed' = performed \cup {current_node}
    /\ pc' = "done"
    /\ UNCHANGED <<max_steps, passes, topo_order, idx, current_node, step_count,
                   failure_counts, saved>>
    /\ RMUnchanged

\* NodePasses with the detector's verdict ignored once verification passed
NodePassesIgnoringDetector ==
    /\ pc = "running"
    /\ \E ps \in PageStatesAfterAction :
        /\ dom_hashes' = record_dom_state(dom_hashes, window_size, ps.dom_elements)
        /\ page_state' = ps
    /\ node_states' = [node_states EXCEPT ![current_node] = "success"]
    /\ node_results' = SetItem(node_results, current_node,
                               NodeResult("success", "passed", "none", "none"))
    /\ performed' = performed \cup {current_node}
    /\ pc' = "checkpoint"
    /\ UNCHANGED <<max_steps, passes, topo_order, idx, current_node, step_count,
                   result, failure_counts, saved>>
    /\ RMUnchanged

\* steps 1-4 ran, progress was made and verification passed: SUCCESS is set
NodePasses ==
    /\ pc = "running"
    /\ \E ps \in PageStatesAfterAction :
        LET h == record_dom_state(dom_hashes, window_size, ps.dom_elements)
        IN  /\ ~detect_no_progress(h, window_size)
            /\ dom_hashes' = h
            /\ page_state' = ps
    /\ node_states' = [node_states EXCEPT ![current_node] = "success"]
    /\ node_results' = SetItem(node_results, current_node,
                               NodeResult("success", "passed", "none", "none"))
    /\ performed' = performed \cup {current_node}
    /\ pc' = "checkpoint"
    /\ UNCHANGED <<max_steps, passes, topo_order, idx, current_node, step_count,
                   result, failure_counts, saved>>
    /\ RMUnchanged

\* NodeFailsVerification with execute moving on to the next node
NodeFailsVerificationContinues ==
    /\ pc = "running"
    /\ \E ps \in PageStatesAfterAction :
        LET h == record_dom_state(dom_hashes, window_size, ps.dom_elements)
        IN  /\ ~detect_no_progress(h, window_size)
            /\ dom_hashes' = h
            /\ page_state' = ps
    /\ node_states' = [node_states EXCEPT ![current_node] = "failed"]
    /\ node_results' = SetItem(node_results, current_node,
                               NodeResult("failed", "failed", "verification-failed",
                                          "none"))
    /\ failure_counts' = record_failure(failure_counts, current_node)
    /\ performed' = performed \cup {current_node}
    /\ idx' = idx + 1
    /\ pc' = "loop"
    /\ UNCHANGED <<max_steps, passes, topo_order, current_node, step_count,
                   result, saved>>
    /\ RMUnchanged

\* steps 1-4 ran, progress was made and verification did not pass
NodeFailsVerification ==
    /\ pc = "running"
    /\ \E ps \in PageStatesAfterAction :
        LET h == record_dom_state(dom_hashes, window_size, ps.dom_elements)
        IN  /\ ~detect_no_progress(h, window_size)
            /\ dom_hashes' = h
            /\ page_state' = ps
    /\ node_states' = [node_states EXCEPT ![current_node] = "failed"]
    /\ node_results' = SetItem(node_results, current_node,
                               NodeResult("failed", "failed", "verification-failed",
                                          "none"))
    /\ failure_counts' = record_failure(failure_counts, current_node)
    /\ result' = _create_failure_result(current_node, node_results', step_count)
    /\ performed' = performed \cup {current_node}
    /\ pc' = "done"
    /\ UNCHANGED <<max_steps, passes, topo_order, idx, current_node, step_count,
                   saved>>
    /\ RMUnchanged

\* after SUCCESS: the browser state is read, the checkpoint saved, the success
\* recorded; back in execute the step counter advances
CheckpointSaved ==
    /\ pc = "checkpoint"
    /\ checkpoints' = save_checkpoint(checkpoints, max_checkpoints,
                          Checkpoint(current_node, step_count, page_state, 0))
    /\ failure_counts' = record_success(failure_counts, current_node)
    /\ saved' = saved \cup {current_node}
    /\ step_count' = step_count + 1
    /\ idx' = idx + 1
    /\ pc' = "loop"
    /\ UNCHANGED <<max_steps, passes, topo_order, current_node, node_states,
                   node_results, page_state, result, dom_hashes, performed,
                   max_checkpoints, rollback_history>>
    /\ ExecFrame

\* CheckpointRaises with the exception raised after the checkpoint was appended
CheckpointRaisesAfterSave ==
    /\ pc = "checkpoint"
    /\ FailByException(page_state)
    /\ checkpoints' = save_checkpoint(checkpoints, max_checkpoints,
                          Checkpoint(current_node, step_count, page_state, 0))
    /\ saved' = saved \cup {current_node}
    /\ UNCHANGED <<max_steps, passes, topo_order, idx, current_node, step_count,
                   dom_hashes, failure_counts, performed,
                   max_checkpoints, rollback_history>>
    /\ ExecFrame

\* after SUCCESS: get_url, get_cookies, get_local_storage or the deep copy in
\* save_checkpoint raises; the except branch marks the node FAILED
CheckpointRaises ==
    /\ pc = "checkpoint"
    /\ FailByException(page_state)
    /\ UNCHANGED <<max_steps, passes, topo_order, idx, current_node, step_count,
                   dom_hashes, failure_counts, performed, saved>>
    /\ RMUnchanged

NextExec ==
    \/ ExecuteStart
    \/ ExecuteSortFails
    \/ PassSucceeds
    \/ StepBudgetExceeded
    \/ SkipMissingNode
    \/ StartNode
    \/ NodeRaises
    \/ NodeNoProgress
    \/ NodePasses
    \/ NodeFailsVerification
    \/ CheckpointSaved
    \/ CheckpointRaises

\* ---------------------------------------------------------------- repair.py
\* FailureType values
FailureTypes == {"grounding_fail", "state_fail", "extraction_fail",
                 "compute_fail", "plan_fail", "unknown"}

RepairStrategy(failure_type, strategy_name, actions, rollback_depth) ==
    [failure_type |-> failure_type, strategy_name |-> strategy_name,
     actions |-> actions, rollback_depth |-> rollback_depth]

\* the None select_repair_strategy returns when the list is exhausted
NoStrategy == RepairStrategy("none", "none", <<>>, None)

\* _init_repair_strategies, read with .get(failure_type, []): the table has
\* no entry for UNKNOWN
_init_repair_strategies(failure_type) ==
    CASE failure_type = "grounding_fail" ->
           <<RepairStrategy("grounding_fail", "switch-anchor",
                 <<"try_alternative_selector", "use_text_match", "use_xpath">>, 0),
             RepairStrategy("grounding_fail", "wait-for-element",
                 <<"wait_longer", "scroll_to_view">>, 0)>>
      [] failure_type = "state_fail" ->
           <<RepairStrategy("state_fail", "close-popup",
                 <<"close_popup", "dismiss_modal">>, 0),
             RepairStrategy("state_fail", "navigate-again",
                 <<"refresh_page", "navigate_again">>, 1)>>
      [] failure_type = "extraction_fail" ->
           <<RepairStrategy("extraction_fail", "expand-page-set",
                 <<"try_next_page", "expand_section">>, 0),
             RepairStrategy("extraction_fail", "adjust-extraction-rules",
                 <<"relax_extraction_rules", "use_alternative_fields">>, 0)>>
      [] failure_type = "compute_fail" ->
           <<RepairStrategy("compute_fail", "code-reflection",
                 <<"fix_computation", "use_fallback_value">>, 0)>>
      [] failure_type = "plan_fail" ->
           <<RepairStrategy("plan_fail", "rollback-to-collect",
                 <<"rollback_to_collect">>, 2)>>
      [] OTHER -> <<>>

\* select_repair_strategy(failure_type, attempt), attempt counted from 0
select_repair_strategy(failure_type, attempt) ==
    LET strategies == _init_repair_strategies(failure_type)
    IN  IF attempt >= Len(strategies) THEN NoStrategy ELSE strategies[attempt + 1]

\* str.lower() on the words of an error text
Lower(word) ==
    CASE word = "Element" -> "element"
      [] word = "SELECTOR" -> "selector"
      [] word = "Timeout" -> "timeout"
      [] OTHER -> word

\* "needle" in text.lower()
ContainsLowered(text, needle) == \E i \in 1..Len(text) : Lower(text[i]) = needle

\* _detect_popup: some DOM element's text carries a modal keyword
_detect_popup(page) ==
    \E i \in 1..Len(page.dom_elements) :
        page.dom_elements[i] \in {"modal", "popup", "dialog", "overlay"}

\* the error text and the confidence classify_failure reads off the
\* verification result: an object with attributes, a dict, or None
VerificationError(v) == IF v.kind = "none" THEN <<>> ELSE v.error

VerificationConfidence(v) == IF v.kind = "none" THEN 0 ELSE v.confidence

\* confidence < 0.3, in thousandths
low_confidence == 300

\* classify_failure with the confidence test moved ahead of the popup test
classify_failure_confidence_first(inp) ==
    LET error == VerificationError(inp.verification_result)
    IN  IF ContainsLowered(error, "element") \/ ContainsLowered(error, "selector")
        THEN "grounding_fail"
        ELSE IF inp.node_type = "EXTRACT" /\ inp.page_state.extracted_empty
        THEN "extraction_fail"
        ELSE IF inp.node_type = "COMPUTE" /\ inp.page_state.compute_error
        THEN "compute_fail"
        ELSE IF VerificationConfidence(inp.verification_result) < low_confidence
        THEN "plan_fail"
        ELSE IF inp.node_type \in {"NAVIGATE", "ACT"} /\ _detect_popup(inp.page_state)
        THEN "state_fail"
        ELSE "unknown"

\* classify_failure(node, verification_result, page_state)
classify_failure(inp) ==
    LET error == VerificationError(inp.verification_result)
    IN  IF ContainsLowered(error, "element") \/ ContainsLowered(error, "selector")
        THEN "grounding_fail"
        ELSE IF inp.node_type = "EXTRACT" /\ inp.page_state.extracted_empty
        THEN "extraction_fail"
        ELSE IF inp.node_type = "COMPUTE" /\ inp.page_state.compute_error
        THEN "compute_fail"
        ELSE IF inp.node_type \in {"NAVIGATE", "ACT"} /\ _detect_popup(inp.page_state)
        THEN "state_fail"
        ELSE IF VerificationConfidence(inp.verification_result) < low_confidence
        THEN "plan_fail"
        ELSE "unknown"

\* reverse_graph.get(node, []): the sources of the edges into node, in edge order
Parents(es, node) ==
    LET hits == SelectSeq(es, LAMBDA e : e[2] = node)
    IN  [i \in 1..Len(hits) |-> hits[i][1]]

\* graph.get(node, []): the targets of the edges out of node, in edge order
Children(es, node) ==
    LET hits == SelectSeq(es, LAMBDA e : e[1] = node)
    IN  [i \in 1..Len(hits) |-> hits[i][2]]

\* next_level of one BFS round: the parents of every node of current_level
RECURSIVE ParentsOfLevel(_, _)
ParentsOfLevel(es, current_level) ==
    IF current_level = <<>> THEN <<>>
    ELSE Parents(es, Head(current_level)) \o ParentsOfLevel(es, Tail(current_level))

\* the depth rounds of _find_ancestors
RECURSIVE ancestors_rounds(_, _, _, _)
ancestors_rounds(es, current_level, rounds, ancestors) ==
    IF rounds = 0 THEN ancestors
    ELSE LET next_level == ParentsOfLevel(es, current_level)
         IN  ancestors_rounds(es, next_level, rounds - 1, ancestors \o next_level)

\* _find_ancestors: list(set(ancestors)), as a set
_find_ancestors(g, node_id, depth) ==
    IF depth = 0 THEN {}
    ELSE Range(ancestors_rounds(g.edges, <<node_id>>, depth, <<>>))

\* the nested dfs of _find_descendants; st = [visited, descendants]
RECURSIVE dfs(_, _, _)
RECURSIVE dfs_children(_, _, _, _)
dfs(es, node, st) ==
    IF node \in st.visited THEN st
    ELSE dfs_children(es, Children(es, node), 1,
                      [st EXCEPT !.visited = st.visited \cup {node}])

dfs_children(es, children, k, st) ==
    IF k > Len(children) THEN st
    ELSE dfs_children(es, children, k + 1,
             dfs(es, children[k],
                 [st EXCEPT !.descendants = Append(st.descendants, children[k])]))

\* _find_descendants stopping at the direct children
_find_descendants_children_only(g, node_id) == Children(g.edges, node_id)

\* _find_descendants: the list of every child met, repeats included
_find_descendants(g, node_id) ==
    dfs(g.edges, node_id, [visited |-> {}, descendants |-> <<>>]).descendants

\* compute_rollback_subgraph(task_graph, failed_node_id, failure_type):
\* [subgraph, depth]; raised stands for the ValidationError of the sort
compute_rollback_subgraph(g, failed_node_id, failure_type) ==
    LET strategy == select_repair_strategy(failure_type, 0)
    IN  IF strategy = NoStrategy
        THEN [subgraph |-> <<failed_node_id>>, depth |-> 0, raised |-> FALSE]
        ELSE LET rollback_depth == strategy.rollback_depth
                 ancestors == _find_ancestors(g, failed_node_id, rollback_depth)
                 descendants == _find_descendants(g, failed_node_id)
                 subgraph_nodes == ancestors \cup {failed_node_id}
                                       \cup Range(descendants)
                 t == get_topological_order(g.nodes, g.edges)
             IN  IF ~t.ok
                 THEN [subgraph |-> <<>>, depth |-> rollback_depth, raised |-> TRUE]
                 ELSE [subgraph |-> SelectSeq(t.order,
                                       LAMBDA nid : nid \in subgraph_nodes),
                       depth |-> rollback_depth, raised |-> FALSE]

\* --------------------------------------------- SpecEngine: the repair engine
\* max_repair_per_node default
DefaultMaxRepairPerNode == 3

\* error texts, as word lists
ErrorTexts == {<<>>, <<"Element", "not", "found">>, <<"invalid", "SELECTOR">>,
               <<"Timeout">>}

\* confidences in thousandths, on both sides of the 0.3 test
ConfidenceLevels == {0, 299, 300, 460}

NoVerificationResult == [kind |-> "none", error |-> <<>>, confidence |-> 0]

VerificationResults ==
    {NoVerificationResult}
        \cup [kind : {"object", "dict"}, error : ErrorTexts,
              confidence : ConfidenceLevels]

\* dom_elements lists, with and without a modal keyword
DomLists == {<<>>, <<"div">>, <<"div", "modal">>, <<"popup">>, <<"dialog">>,
             <<"overlay">>}

EmptyPageState ==
    [extracted_empty |-> TRUE, compute_error |-> FALSE, dom_elements |-> <<>>]

ClassifyInputs ==
    [node_type : VALID_NODE_TYPES,
     verification_result : VerificationResults,
     page_state : [extracted_empty : BOOLEAN, compute_error : BOOLEAN,
                   dom_elements : DomLists]]

DefaultClassifyInput ==
    [node_type |-> "VERIFY", verification_result |-> NoVerificationResult,
     page_state |-> EmptyPageState]

\* task graphs that pass validate: up to MaxNodes nodes with ids 1..n
EngineGraphs ==
    {g \in UNION {[nodes : {[i \in 1..n |-> [id |-> i, type |-> DefaultType(i),
                                             keys |-> AllKeys]]},
                   edges : GraphEdgeLists] : n \in 1..MaxNodes}
        : validate(g, TRUE).valid}

\* one planning step: the graph, the failed node, the classified failure type
\* and the attempt index of the loop
PlanInputs ==
    UNION {[graph : {g}, failed_node : {g.nodes[i].id : i \in 1..Len(g.nodes)},
            failure_type : FailureTypes,
            attempt : 0..(DefaultMaxRepairPerNode - 1)] : g \in EngineGraphs}

DefaultPlanInput ==
    [graph |-> [nodes |-> <<[id |-> 1, type |-> DefaultType(1), keys |-> AllKeys]>>,
                edges |-> <<>>],
     failed_node |-> 1, failure_type |-> "unknown", attempt |-> 0]

NoEngineResult ==
    [failure_type |-> "none", strategy |-> NoStrategy, subgraph |-> <<>>,
     depth |-> None, raised |-> FALSE]

\* what a failed pass leaves behind for _attempt_repair: the failed node's
\* type, the page state the pass accumulated, and how the node failed: it
\* raised (kind "raised", the text of the exception) or its verification did
\* not pass (kind "failed", the confidence)
PassFacts ==
    [node_type : VALID_NODE_TYPES,
     verification_result :
        [kind : {"raised"}, error : ErrorTexts \ {<<>>}, confidence : {0}]
            \cup [kind : {"failed"}, error : {<<>>}, confidence : ConfidenceLevels],
     page_state : [extracted_empty : BOOLEAN, compute_error : BOOLEAN,
                   dom_elements : DomLists]]

\* node_results[failed_node_id].get("verification") of the failed pass: the
\* exception branch stores none, the verification branch stores
\* verification.to_dict(), whose details carry no error
RecordedVerification(facts) ==
    IF facts.verification_result.kind = "raised" THEN NoVerificationResult
    ELSE [kind |-> "dict", error |-> <<>>,
          confidence |-> facts.verification_result.confidence]

\* initial_result.get("final_state", {}): _create_failure_result has no
\* final_state key, whatever page state the pass accumulated
RecordedFinalState(facts) == EmptyPageState

InitEngine ==
    /\ \/ cin \in ClassifyInputs /\ pin = DefaultPlanInput /\ eop = "input"
       \/ cin = DefaultClassifyInput /\ pin \in PlanInputs /\ eop = "input"
       \/ cin \in PassFacts /\ pin = DefaultPlanInput /\ eop = "pass-failed"
    /\ eout = NoEngineResult

\* repair_engine.classify_failure(failed_node, verification_result, page_state)
ClassifyFailure ==
    /\ eop = "input"
    /\ eop' = "classified"
    /\ eout' = [NoEngineResult EXCEPT !.failure_type = classify_failure(cin)]
    /\ UNCHANGED <<cin, pin>>
    /\ EngineFrame

\* the planning step of one repair attempt: the strategy for the attempt
\* index, then the rollback subgraph and depth
PlanAttempt ==
    /\ eop = "input"
    /\ eop' = "planned"
    /\ LET strategy == select_repair_strategy(pin.failure_type, pin.attempt)
           r == compute_rollback_subgraph(pin.graph, pin.failed_node,
                                          pin.failure_type)
       IN  eout' = IF strategy = NoStrategy
                   THEN [NoEngineResult EXCEPT !.failure_type = pin.failure_type]
                   ELSE [failure_type |-> pin.failure_type, strategy |-> strategy,
                         subgraph |-> r.subgraph, depth |-> r.depth,
                         raised |-> r.raised]
    /\ UNCHANGED <<cin, pin>>
    /\ EngineFrame

\* _attempt_repair: the classification of a failed pass
ClassifyFailedPass ==
    /\ eop = "pass-failed"
    /\ eop' = "pass-classified"
    /\ eout' = [NoEngineResult EXCEPT !.failure_type =
                    classify_failure([node_type |-> cin.node_type,
                                      verification_result |-> RecordedVerification(cin),
                                      page_state |-> RecordedFinalState(cin)])]
    /\ UNCHANGED <<cin, pin>>
    /\ EngineFrame

NextEngine == ClassifyFailure \/ PlanAttempt \/ ClassifyFailedPass

\* ---------------------------------------------- router.py: route and stats
\* ModelTier values
ModelTiers == {"no_llm", "small", "large"}

\* upgrade_after_failures default
DefaultUpgradeThreshold == 3

\* complexity is kept in units of 1/ComplexityScale; use_llm_threshold 0.5
ComplexityScale == 20000

dom_complexity_threshold == 10000

\* CostStats(): the call counters route maintains
NoStats ==
    [total_calls |-> 0, no_llm_calls |-> 0, small_model_calls |-> 0,
     large_model_calls |-> 0, total_tokens |-> 0, total_cost |-> 0,
     calls_by_node |-> <<>>]

\* MODEL_PRICES of the default models per token, in units of 1e-7 dollars:
\* gpt-3.5-turbo 0.0015 / 0.002 and gpt-4 0.03 / 0.06 per 1K tokens
ModelPrice(tier) ==
    IF tier = "small" THEN [input |-> 15, output |-> 20]
    ELSE [input |-> 300, output |-> 600]

\* record_call(model_tier, node_id, input_tokens, output_tokens) on the stats
record_call(st, tier, node_id, input_tokens, output_tokens) ==
    LET counted ==
            [st EXCEPT !.total_calls = @ + 1,
                       !.calls_by_node =
                           SetItem(@, node_id, FailureCount(@, node_id) + 1)]
    IN  IF tier \notin {"small", "large"} THEN counted
        ELSE [counted EXCEPT
                 !.total_tokens = @ + input_tokens + output_tokens,
                 !.total_cost = @ + input_tokens * ModelPrice(tier).input
                                  + output_tokens * ModelPrice(tier).output]

\* get_stats(): a new dict with the scalar counters copied into it,
\* cost_per_call in whole units, and the stats object's own calls_by_node dict
get_stats(st) ==
    [total_calls |-> st.total_calls, no_llm_calls |-> st.no_llm_calls,
     small_model_calls |-> st.small_model_calls,
     large_model_calls |-> st.large_model_calls,
     total_tokens |-> st.total_tokens, total_cost |-> st.total_cost,
     cost_per_call |-> IF st.total_calls > 0
                       THEN st.total_cost \div st.total_calls ELSE 0,
     calls_by_node |-> st.calls_by_node]

\* no get_stats call yet; returned is the dict as it was when get_stats
\* returned it
NoStatsDict == [taken |-> FALSE, returned |-> get_stats(NoStats)]

\* what a holder of the returned dict reads from it: the scalars stored in it
\* and, under "calls_by_node", the dict object that record_call writes to
ReadStatsDict(held, st) ==
    [held.returned EXCEPT !.calls_by_node = st.calls_by_node]

\* all(isinstance(f, dict) and "selector" in f for f in fields)
AllFieldsHaveSelector(fields) ==
    \A i \in 1..Len(fields) : fields[i] = "dict-with-selector"

\* _can_parse_directly(node, page_state)
_can_parse_directly(node) ==
    \/ node.type = "NAVIGATE" /\ node.url
    \/ node.type = "COLLECT" /\ node.selector
    \/ node.type = "EXTRACT" /\ AllFieldsHaveSelector(node.fields)
    \/ node.type = "ACT" /\ node.target

\* _evaluate_dom_complexity: (min(n/1000, 1) + min(len/10000, 1)) / 2
_evaluate_dom_complexity(env) ==
    Min2(env.element_count * (ComplexityScale \div 2000), ComplexityScale \div 2)
        + Min2(env.text_length * (ComplexityScale \div 20000), ComplexityScale \div 2)

\* route with rule 1 tested after the failure counter
route_counter_first(node, env, fc, thr) ==
    IF FailureCount(fc, node.id) >= thr THEN "large"
    ELSE IF _can_parse_directly(node) THEN "no_llm"
    ELSE IF _evaluate_dom_complexity(env) > dom_complexity_threshold THEN "large"
    ELSE "small"

\* route with the escalation test strict (failure_count > threshold)
route_strict_escalation(node, env, fc, thr) ==
    IF _can_parse_directly(node) THEN "no_llm"
    ELSE IF FailureCount(fc, node.id) > thr THEN "large"
    ELSE IF _evaluate_dom_complexity(env) > dom_complexity_threshold THEN "large"
    ELSE "small"

\* route(node, page_state): the tier returned
route(node, env, fc, thr) ==
    IF _can_parse_directly(node) THEN "no_llm"
    ELSE IF FailureCount(fc, node.id) >= thr THEN "large"
    ELSE IF _evaluate_dom_complexity(env) > dom_complexity_threshold THEN "large"
    ELSE "small"

\* route's update of the per-tier counters
CountTier(st, tier) ==
    CASE tier = "no_llm" -> [st EXCEPT !.no_llm_calls = @ + 1]
      [] tier = "small" -> [st EXCEPT !.small_model_calls = @ + 1]
      [] OTHER -> [st EXCEPT !.large_model_calls = @ + 1]

\* ------------------------------------------------- SpecRouter: the router
RouterNodeIds == {1, 2}

\* params.fields lists: dicts with a selector, dicts without, plain names
FieldLists ==
    {<<>>, <<"dict-with-selector">>, <<"dict-with-selector", "name">>,
     <<"dict-without-selector">>}

PlainNode(id, type) ==
    [id |-> id, type |-> type, url |-> FALSE, selector |-> FALSE,
     target |-> FALSE, fields |-> <<>>]

\* nodes handed to route: every type, with and without the parameter that
\* makes it parsable without a model
RouterNodes ==
    UNION {
        {PlainNode(id, ty) : ty \in VALID_NODE_TYPES \ {"EXTRACT"}}
          \cup {[PlainNode(id, "NAVIGATE") EXCEPT !.url = TRUE],
                [PlainNode(id, "COLLECT") EXCEPT !.selector = TRUE],
                [PlainNode(id, "ACT") EXCEPT !.target = TRUE]}
          \cup {[PlainNode(id, "EXTRACT") EXCEPT !.fields = fl] : fl \in FieldLists}
        : id \in RouterNodeIds}

\* page states by element count and text length, around the 0.5 average
RouterEnv(element_count, text_length) ==
    [element_count |-> element_count, text_length |-> text_length]

RouterEnvs ==
    {RouterEnv(0, 0), RouterEnv(500, 5000), RouterEnv(500, 5001),
     RouterEnv(2000, 0), RouterEnv(2000, 20000)}

\* token counts handed to record_call: the executor's 100/50, and an
\* output-only call
TokenPairs == {<<100, 50>>, <<0, 1000>>}

NoRouterCall ==
    [op |-> "init", node |-> PlainNode(None, "none"), env |-> RouterEnv(0, 0),
     ret |-> "none", tier |-> "none", tokens |-> <<0, 0>>]

InitRouter ==
    /\ upgrade_threshold \in {SmallUpgradeThreshold, DefaultUpgradeThreshold}
    /\ failure_counts = <<>>
    /\ stats = NoStats
    /\ rt_call = NoRouterCall
    /\ rt_peak = [id \in RouterNodeIds |-> 0]
    /\ rt_streak = [id \in RouterNodeIds |-> 0]
    /\ stats_dict = NoStatsDict

\* route(node, page_state)
Route(node, env) ==
    LET tier == route(node, env, failure_counts, upgrade_threshold)
    IN  /\ stats.no_llm_calls + stats.small_model_calls + stats.large_model_calls
              < MaxRouteCalls
        /\ stats' = CountTier(stats, tier)
        /\ rt_call' = [NoRouterCall EXCEPT !.op = "route", !.node = node,
                                           !.env = env, !.ret = tier]
        /\ UNCHANGED <<upgrade_threshold, failure_counts, rt_peak, rt_streak,
                       stats_dict>>
        /\ RouterFrame

\* record_failure(node_id)
RecordFailure(node_id) ==
    /\ FailureCount(failure_counts, node_id) < MaxFailures
    /\ failure_counts' = record_failure(failure_counts, node_id)
    /\ rt_call' = [NoRouterCall EXCEPT !.op = "record_failure", !.node.id = node_id]
    /\ rt_streak' = [rt_streak EXCEPT ![node_id] = @ + 1]
    /\ rt_peak' = [rt_peak EXCEPT ![node_id] = Max2(@, rt_streak[node_id] + 1)]
    /\ UNCHANGED <<upgrade_threshold, stats, stats_dict>>
    /\ RouterFrame

\* record_success(node_id)
RecordSuccess(node_id) ==
    /\ failure_counts' = record_success(failure_counts, node_id)
    /\ rt_call' = [NoRouterCall EXCEPT !.op = "record_success", !.node.id = node_id]
    /\ rt_streak' = [rt_streak EXCEPT ![node_id] = 0]
    /\ UNCHANGED <<upgrade_threshold, stats, rt_peak, stats_dict>>
    /\ RouterFrame

\* record_call(model_tier, node_id, input_tokens, output_tokens)
RecordCall(tier, node_id, tokens) ==
    /\ stats.total_calls < MaxRecordCalls
    /\ stats' = record_call(stats, tier, node_id, tokens[1], tokens[2])
    /\ rt_call' = [NoRouterCall EXCEPT !.op = "record_call", !.node.id = node_id,
                                       !.tier = tier, !.tokens = tokens]
    /\ UNCHANGED <<upgrade_threshold, failure_counts, rt_peak, rt_streak,
                   stats_dict>>
    /\ RouterFrame

\* get_stats(), its result kept by the caller
GetStats ==
    /\ ~stats_dict.taken
    /\ stats_dict' = [taken |-> TRUE, returned |-> get_stats(stats)]
    /\ rt_call' = [NoRouterCall EXCEPT !.op = "get_stats"]
    /\ UNCHANGED <<upgrade_threshold, stats, failure_counts, rt_peak, rt_streak>>
    /\ RouterFrame

NextRouter ==
    \/ \E node \in RouterNodes, env \in RouterEnvs : Route(node, env)
    \/ \E tier \in ModelTiers, node_id \in RouterNodeIds, tokens \in TokenPairs :
          RecordCall(tier, node_id, tokens)
    \/ \E node_id \in RouterNodeIds : RecordFailure(node_id)
    \/ \E node_id \in RouterNodeIds : RecordSuccess(node_id)

\* ------------------------------------- repair.py: applying a repair strategy
\* what the browser does when a repair action reaches it: the element is
\* found and clicked, it is absent, or the call raises
BrowserOutcomes == {"found", "absent", "raises"}

\* _execute_repair_action: _close_popup clicks a close button or presses
\* Escape and is False only when the browser raises; refresh, wait and scroll
\* return True unless they raise; pagination needs a click that succeeds;
\* the alternative selector is never found and other actions are unknown
_execute_repair_action(action, outcome) ==
    CASE action \in {"close_popup", "dismiss_modal"} -> outcome # "raises"
      [] action \in {"refresh_page", "wait_longer", "scroll_to_view"} ->
            outcome # "raises"
      [] action = "try_alternative_selector" -> FALSE
      [] action = "try_next_page" -> outcome = "found"
      [] OTHER -> FALSE

\* apply_repair that returns what the last action of the list reports
apply_repair_last_action(strategy, outcomes) ==
    /\ strategy.actions # <<>>
    /\ _execute_repair_action(strategy.actions[Len(strategy.actions)],
                              outcomes[Len(strategy.actions)])

\* apply_repair: True at the first action that succeeds, an exception in an
\* action counts as its failure
apply_repair(strategy, outcomes) ==
    \E i \in 1..Len(strategy.actions) :
        _execute_repair_action(strategy.actions[i], outcomes[i])

\* ------------------------------------ rollback.py: EnvironmentReset
\* reset_to_initial: the browser calls it makes; none without a saved state
reset_to_initial(saved_state) ==
    IF saved_state = None THEN <<>>
    ELSE <<"clear_cookies", "clear_local_storage", "set_cookies", "navigate">>

\* ----------------------------- run_experiment.py: run_task, _attempt_repair
\* a returned result dict with the node_results it refers to
Snapshot(res, nres) == [result |-> res, node_results |-> nres]

NoSnapshot == Snapshot(NoExecResult, <<>>)

\* run_task's return value for a graph that fails validation
InvalidGraphResult ==
    [kind |-> "invalid", success |-> FALSE, failed_node |-> None,
     error |-> "validation-failed", steps |-> 0]

\* run_task's return value when an exception reaches its except clause
ExceptionResult ==
    [kind |-> "exception", success |-> FALSE, failed_node |-> None,
     error |-> "exception", steps |-> 0]

\* run_task hands every failed result to the coordinator
EligibleForRepairAnyFailure(res) == ~res.success

\* run_task: not result["success"] and use_repair, and a failed_node is named
EligibleForRepair(res) == ~res.success /\ res.failed_node # None

\* confidences a stored verification dict can carry, in thousandths
StoredConfidences(verdict) ==
    IF verdict = "passed" THEN {850} ELSE ConfidenceLevels

\* initial_result["node_results"].get(failed_node_id, {}).get("verification")
StoredVerification(nres, node_id, confidence) ==
    IF node_id \notin DOMAIN nres \/ nres[node_id].verification = "absent"
    THEN NoVerificationResult
    ELSE [kind |-> "dict", error |-> <<>>, confidence |-> confidence]

\* a subgraph whose edges point the other way
_execute_subgraph_reversed(g, subgraph_nodes) ==
    LET inner == SelectSeq(g.edges, LAMBDA e : e[1] \in Range(subgraph_nodes)
                                                /\ e[2] \in Range(subgraph_nodes))
    IN  [nodes |-> SelectSeq(g.nodes, LAMBDA n : n.id \in Range(subgraph_nodes)),
         edges |-> [i \in 1..Len(inner) |-> <<inner[i][2], inner[i][1]>>]]

\* a subgraph that keeps every edge of the full graph
_execute_subgraph_all_edges(g, subgraph_nodes) ==
    [nodes |-> SelectSeq(g.nodes, LAMBDA n : n.id \in Range(subgraph_nodes)),
     edges |-> g.edges]

\* _execute_subgraph: the nodes and edges inside the rollback subgraph
_execute_subgraph(g, subgraph_nodes) ==
    [nodes |-> SelectSeq(g.nodes, LAMBDA n : n.id \in Range(subgraph_nodes)),
     edges |-> SelectSeq(g.edges, LAMBDA e : e[1] \in Range(subgraph_nodes)
                                              /\ e[2] \in Range(subgraph_nodes))]

\* ------------------------------------------- SpecRepair: run_task with repair
\* node types of the compiled graphs: an EXTRACT failure classifies as
\* extraction_fail, an ACT failure by its confidence
RepairNodeTypes == {"EXTRACT", "ACT"}

\* edges in declaration order and one self-loop, which validate rejects
RepairEdgeLists ==
    SeqsUpTo({e \in NodeIds \X NodeIds : e[1] < e[2]} \cup {<<1, 1>>}, MaxEdges)

\* compiled graphs: ids 1..n; ACT nodes share one idempotent flag, the other
\* nodes carry none (node.get("idempotent", True))
RepairGraphs ==
    UNION {[nodes : {[i \in 1..n |-> [id |-> i, type |-> ty[i], keys |-> AllKeys,
                                      idempotent |-> (ty[i] # "ACT" \/ idem)]]
                        : ty \in [1..n -> RepairNodeTypes], idem \in BOOLEAN},
            edges : RepairEdgeLists]
           : n \in 1..MaxNodes}

InitRepair ==
    /\ task_graph \in RepairGraphs
    /\ full_graph = task_graph
    /\ max_attempts \in {SmallMaxAttempts, DefaultMaxRepairPerNode}
    /\ max_steps \in {SmallStepBudget, DefaultMaxSteps}
    /\ cpc = "ready"
    /\ initial_result = NoSnapshot
    /\ run_result = NoSnapshot
    /\ classified = "none"
    /\ attempt_no = 0
    /\ attempts_log = <<>>
    /\ initial_state = None
    /\ task_no = 1
    /\ pc = "idle"
    /\ passes = 0
    /\ topo_order = <<>>
    /\ idx = 0
    /\ current_node = None
    /\ node_states = <<>>
    /\ node_results = <<>>
    /\ page_state = FreshPageState
    /\ step_count = 0
    /\ result = NoExecResult
    /\ dom_hashes = <<>>
    /\ failure_counts = <<>>
    /\ performed = {}
    /\ saved = {}
    /\ max_checkpoints = DefaultMaxCheckpoints
    /\ checkpoints = <<>>
    /\ rollback_history = <<>>

\* executor.execute(g) up to the node loop, or its error return when the
\* topological sort raises
BeginPass(g) ==
    LET t == get_topological_order(g.nodes, g.edges)
    IN  /\ task_graph' = g
        /\ passes' = passes + 1
        /\ topo_order' = IF t.ok THEN t.order ELSE <<>>
        /\ node_states' = IF t.ok THEN [id \in Range(t.order) |-> "pending"] ELSE <<>>
        /\ node_results' = <<>>
        /\ page_state' = FreshPageState
        /\ step_count' = 0
        /\ current_node' = None
        /\ idx' = IF t.ok THEN 1 ELSE 0
        /\ result' = IF t.ok THEN NoExecResult
                     ELSE _create_error_result("topological-sort-failed", 0)
        /\ performed' = {}
        /\ saved' = {}
        /\ pc' = IF t.ok THEN "loop" ELSE "done"

PassUnchanged ==
    UNCHANGED <<task_graph, passes, topo_order, node_states, node_results,
                page_state, step_count, current_node, idx, result, performed,
                saved, pc>>

\* what no step of run_task or _attempt_repair touches
RepairFrame ==
    UNCHANGED <<gop, vres, ores, vvars, rb_saves, rb_call, rb_ever, envars,
                rtvars, dvars, max_checkpoints, max_steps, dom_hashes, failure_counts,
                full_graph, max_attempts, initial_state, task_no>>

\* run_task: the compiled graph fails validation
RunTaskInvalid ==
    /\ cpc = "ready"
    /\ ~validate(full_graph, TRUE).valid
    /\ run_result' = Snapshot(InvalidGraphResult, <<>>)
    /\ cpc' = "returned"
    /\ PassUnchanged
    /\ UNCHANGED <<initial_result, classified, attempt_no, attempts_log,
                   checkpoints, rollback_history>>
    /\ RepairFrame

\* run_task: the graph is valid and the first pass starts
RunTaskExecutes ==
    /\ cpc = "ready"
    /\ validate(full_graph, TRUE).valid
    /\ BeginPass(full_graph)
    /\ cpc' = "first-pass"
    /\ UNCHANGED <<initial_result, run_result, classified, attempt_no,
                   attempts_log, checkpoints, rollback_history>>
    /\ RepairFrame

\* run_task: the first pass succeeded
TaskSucceeds ==
    /\ cpc = "first-pass"
    /\ pc = "done"
    /\ result.success
    /\ run_result' = Snapshot(result, node_results)
    /\ cpc' = "returned"
    /\ PassUnchanged
    /\ UNCHANGED <<initial_result, classified, attempt_no, attempts_log,
                   checkpoints, rollback_history>>
    /\ RepairFrame

\* run_task: the first pass failed without a failed node; repair is skipped
SkipRepair ==
    /\ cpc = "first-pass"
    /\ pc = "done"
    /\ ~result.success
    /\ ~EligibleForRepair(result)
    /\ run_result' = Snapshot(result, node_results)
    /\ cpc' = "returned"
    /\ PassUnchanged
    /\ UNCHANGED <<initial_result, classified, attempt_no, attempts_log,
                   checkpoints, rollback_history>>
    /\ RepairFrame

\* _attempt_repair up to the attempt loop: the early returns, then the
\* classification with page_state = initial_result.get("final_state", {})
BeginRepair ==
    /\ cpc = "first-pass"
    /\ pc = "done"
    /\ EligibleForRepair(result)
    /\ initial_result' = Snapshot(result, node_results)
    /\ LET failed_node_id == result.failed_node
           k == _get_node_by_id(full_graph, failed_node_id)
       IN  IF failed_node_id = None \/ k = 0
           THEN /\ run_result' = Snapshot(result, node_results)
                /\ cpc' = "returned"
                /\ UNCHANGED classified
           ELSE /\ \E confidence \in StoredConfidences(
                          IF failed_node_id \in DOMAIN node_results
                          THEN node_results[failed_node_id].verification
                          ELSE "absent") :
                      classified' = classify_failure(
                          [node_type |-> full_graph.nodes[k].type,
                           verification_result |->
                               StoredVerification(node_results, failed_node_id,
                                                  confidence),
                           page_state |-> EmptyPageState])
                /\ cpc' = "attempt"
                /\ UNCHANGED run_result
    /\ PassUnchanged
    /\ UNCHANGED <<attempt_no, attempts_log, checkpoints, rollback_history>>
    /\ RepairFrame

\* AttemptsExhausted returning the result of the last pass
AttemptsExhaustedLastResult ==
    /\ cpc = "attempt"
    /\ attempt_no >= max_attempts
    /\ run_result' = Snapshot(result, node_results)
    /\ cpc' = "returned"
    /\ PassUnchanged
    /\ UNCHANGED <<initial_result, classified, attempt_no, attempts_log,
                   checkpoints, rollback_history>>
    /\ RepairFrame

\* range(max_attempts) is used up: return initial_result
AttemptsExhausted ==
    /\ cpc = "attempt"
    /\ attempt_no >= max_attempts
    /\ run_result' = initial_result
    /\ cpc' = "returned"
    /\ PassUnchanged
    /\ UNCHANGED <<initial_result, classified, attempt_no, attempts_log,
                   checkpoints, rollback_history>>
    /\ RepairFrame

\* no strategy for this attempt index: break, return initial_result
NoStrategyLeft ==
    /\ cpc = "attempt"
    /\ attempt_no < max_attempts
    /\ select_repair_strategy(classified, attempt_no) = NoStrategy
    /\ run_result' = initial_result
    /\ cpc' = "returned"
    /\ PassUnchanged
    /\ UNCHANGED <<initial_result, classified, attempt_no, attempts_log,
                   checkpoints, rollback_history>>
    /\ RepairFrame

\* AttemptRepair trying the first strategy again at every index
AttemptRepairSameStrategy ==
    /\ cpc = "attempt"
    /\ attempt_no < max_attempts
    /\ select_repair_strategy(classified, 0) # NoStrategy
    /\ LET strategy == select_repair_strategy(classified, 0)
           failed_node_id == initial_result.result.failed_node
           failed_node == full_graph.nodes[_get_node_by_id(full_graph, failed_node_id)]
           plan == compute_rollback_subgraph(full_graph, failed_node_id, classified)
       IN  \E outcomes \in [1..Len(strategy.actions) -> BrowserOutcomes] :
             LET repaired == apply_repair(strategy, outcomes)
             IN  /\ attempts_log' = Append(attempts_log,
                        [strategy |-> strategy.strategy_name, depth |-> plan.depth,
                         target |-> None, rollback |-> "none", restored |-> FALSE,
                         reset_called |-> FALSE, reset_calls |-> <<>>,
                         repaired |-> repaired])
                 /\ IF repaired
                    THEN /\ BeginPass(_execute_subgraph(full_graph, plan.subgraph))
                         /\ cpc' = "sub-pass"
                         /\ UNCHANGED attempt_no
                    ELSE /\ attempt_no' = attempt_no + 1
                         /\ PassUnchanged
                         /\ UNCHANGED cpc
    /\ UNCHANGED <<initial_result, classified, run_result, checkpoints,
                   rollback_history>>
    /\ RepairFrame

\* one iteration of the attempt loop up to the sub-pass: strategy, rollback
\* subgraph, rollback to the first subgraph node when the depth is positive
\* (restore the browser on a hit; on a miss reset the environment for a
\* non-idempotent node), apply the repair, then continue or start the sub-pass
AttemptRepair ==
    /\ cpc = "attempt"
    /\ attempt_no < max_attempts
    /\ select_repair_strategy(classified, attempt_no) # NoStrategy
    /\ LET strategy == select_repair_strategy(classified, attempt_no)
           failed_node_id == initial_result.result.failed_node
           failed_node == full_graph.nodes[_get_node_by_id(full_graph, failed_node_id)]
           plan == compute_rollback_subgraph(full_graph, failed_node_id, classified)
           rolls == ~plan.raised /\ plan.depth > 0 /\ Len(plan.subgraph) > 0
           target == IF rolls THEN plan.subgraph[1] ELSE None
           rb == rollback_to_node(checkpoints, rollback_history, target)
           hit == rolls /\ rb.ret.node_id # None
           resets == rolls /\ ~hit /\ ~failed_node.idempotent
       IN  IF plan.raised
           THEN /\ run_result' = Snapshot(ExceptionResult, <<>>)
                /\ cpc' = "returned"
                /\ PassUnchanged
                /\ UNCHANGED <<attempt_no, attempts_log, checkpoints,
                               rollback_history>>
           ELSE \E outcomes \in [1..Len(strategy.actions) -> BrowserOutcomes] :
             LET repaired == apply_repair(strategy, outcomes)
             IN  /\ checkpoints' = IF rolls THEN rb.checkpoints ELSE checkpoints
                 /\ rollback_history' =
                        IF rolls THEN rb.rollback_history ELSE rollback_history
                 /\ attempts_log' = Append(attempts_log,
                        [strategy |-> strategy.strategy_name, depth |-> plan.depth,
                         target |-> target,
                         rollback |-> IF ~rolls THEN "none"
                                      ELSE IF hit THEN "hit" ELSE "miss",
                         restored |-> hit,
                         reset_called |-> resets,
                         reset_calls |-> IF resets THEN reset_to_initial(initial_state)
                                         ELSE <<>>,
                         repaired |-> repaired])
                 /\ UNCHANGED run_result
                 /\ IF repaired
                    THEN /\ BeginPass(_execute_subgraph(full_graph, plan.subgraph))
                         /\ cpc' = "sub-pass"
                         /\ UNCHANGED attempt_no
                    ELSE /\ attempt_no' = attempt_no + 1
                         /\ PassUnchanged
                         /\ UNCHANGED cpc
    /\ UNCHANGED <<initial_result, classified>>
    /\ RepairFrame

\* the sub-pass succeeded: its result is returned
SubPassSucceeds ==
    /\ cpc = "sub-pass"
    /\ pc = "done"
    /\ result.success
    /\ run_result' = Snapshot(result, node_results)
    /\ cpc' = "returned"
    /\ PassUnchanged
    /\ UNCHANGED <<initial_result, classified, attempt_no, attempts_log,
                   checkpoints, rollback_history>>
    /\ RepairFrame

\* the sub-pass failed: next attempt
SubPassFails ==
    /\ cpc = "sub-pass"
    /\ pc = "done"
    /\ ~result.success
    /\ attempt_no' = attempt_no + 1
    /\ cpc' = "attempt"
    /\ PassUnchanged
    /\ UNCHANGED <<initial_result, run_result, classified, attempts_log,
                   checkpoints, rollback_history>>
    /\ RepairFrame

NextRepair ==
    \/ RunTaskInvalid
    \/ RunTaskExecutes
    \/ PassSucceeds
    \/ StepBudgetExceeded
    \/ StartNode
    \/ NodeRaises
    \/ NodeNoProgress
    \/ NodePasses
    \/ NodeFailsVerification
    \/ CheckpointSaved
    \/ CheckpointRaises
    \/ TaskSucceeds
    \/ SkipRepair
    \/ BeginRepair
    \/ AttemptsExhausted
    \/ NoStrategyLeft
    \/ AttemptRepair
    \/ SubPassSucceeds
    \/ SubPassFails

\* ------------------------------ SpecRunner: several tasks on one runner
\* compiled graphs of the runner's tasks: a chain over one or two nodes, or
\* the same nodes with a self-loop, which validate rejects; a COLLECT node
\* stores the list later nodes read, an EXTRACT failure classifies as
\* extraction_fail and a COLLECT failure by its confidence
RunnerNodeTypes == {"COLLECT", "EXTRACT"}

RunnerGraphs ==
    UNION {[nodes : {[i \in 1..n |-> [id |-> i, type |-> ty[i], keys |-> AllKeys,
                                      idempotent |-> TRUE]]
                        : ty \in [1..n -> RunnerNodeTypes]},
            edges : {[i \in 1..(n - 1) |-> <<i, i + 1>>], <<<<1, 1>>>>}]
           : n \in 1..RunnerMaxNodes}

\* the runner after _init_modules, at its first run_task call
InitRunner ==
    /\ task_graph \in RunnerGraphs
    /\ full_graph = task_graph
    /\ max_attempts = SmallMaxAttempts
    /\ max_steps = DefaultMaxSteps
    /\ cpc = "ready"
    /\ initial_result = NoSnapshot
    /\ run_result = NoSnapshot
    /\ classified = "none"
    /\ attempt_no = 0
    /\ attempts_log = <<>>
    /\ initial_state = None
    /\ task_no = 1
    /\ pc = "idle"
    /\ passes = 0
    /\ topo_order = <<>>
    /\ idx = 0
    /\ current_node = None
    /\ node_states = <<>>
    /\ node_results = <<>>
    /\ page_state = FreshPageState
    /\ step_count = 0
    /\ result = NoExecResult
    /\ dom_hashes = <<>>
    /\ failure_counts = <<>>
    /\ performed = {}
    /\ saved = {}
    /\ max_checkpoints = DefaultMaxCheckpoints
    /\ checkpoints = <<>>
    /\ rollback_history = <<>>

\* run_experiment's loop calls run_task for the next task on the same
\* runner: the locals of the previous call and its ExecutionContext are gone,
\* the router, the rollback manager and the executor with its detector are
\* the objects _init_modules created
NextTask ==
    /\ cpc = "returned"
    /\ task_no < MaxTasks
    /\ task_no' = task_no + 1
    /\ \E g \in RunnerGraphs :
          /\ full_graph' = g
          /\ task_graph' = g
    /\ cpc' = "ready"
    /\ initial_result' = NoSnapshot
    /\ run_result' = NoSnapshot
    /\ classified' = "none"
    /\ attempt_no' = 0
    /\ attempts_log' = <<>>
    /\ pc' = "idle"
    /\ topo_order' = <<>>
    /\ idx' = 0
    /\ current_node' = None
    /\ node_states' = <<>>
    /\ node_results' = <<>>
    /\ page_state' = FreshPageState
    /\ step_count' = 0
    /\ result' = NoExecResult
    /\ performed' = {}
    /\ saved' = {}
    /\ UNCHANGED <<passes, checkpoints, rollback_history, dom_hashes,
                   failure_counts, max_attempts, initial_state, max_checkpoints,
                   max_steps>>
    /\ UNCHANGED <<gop, vres, ores, vvars, rb_saves, rb_call, rb_ever, envars,
                   rtvars, dvars>>

\* with max_steps = 100 the step budget is out of reach of these graphs, and
\* a valid graph sorts, so every failed pass names its failed node
NextRunner ==
    \/ RunTaskInvalid
    \/ RunTaskExecutes
    \/ PassSucceeds
    \/ StartNode
    \/ NodeRaises
    \/ NodeNoProgress
    \/ NodePasses
    \/ NodeFailsVerification
    \/ CheckpointSaved
    \/ CheckpointRaises
    \/ TaskSucceeds
    \/ BeginRepair
    \/ AttemptsExhausted
    \/ NoStrategyLeft
    \/ AttemptRepair
    \/ SubPassSucceeds
    \/ SubPassFails
    \/ NextTask

\* ---------------------------------------------------------- specifications
IdleGraph == gop = "idle" /\ vres = NoResult /\ ores = NoOrder

IdleVerify ==
    /\ vin = Merge(Merge(CHOOSE h \in HardInputs : TRUE, TypeDefaults), SoftDefaults)
    /\ vout = NoVerification
    /\ vpc = "idle"

IdleRBGhost ==
    /\ rb_saves = 0
    /\ rb_call = [op |-> "init", arg |-> None, ret |-> NoCheckpoint]
    /\ rb_ever = {}

IdleExec ==
    /\ max_steps = DefaultMaxSteps
    /\ pc = "off"
    /\ passes = 0
    /\ topo_order = <<>>
    /\ idx = 0
    /\ current_node = None
    /\ node_states = <<>>
    /\ node_results = <<>>
    /\ page_state = FreshPageState
    /\ step_count = 0
    /\ result = NoExecResult
    /\ dom_hashes = <<>>
    /\ failure_counts = <<>>
    /\ performed = {}
    /\ saved = {}

IdleEngine ==
    /\ cin = DefaultClassifyInput
    /\ pin = DefaultPlanInput
    /\ eop = "idle"
    /\ eout = NoEngineResult

IdleRouter ==
    /\ upgrade_threshold = DefaultUpgradeThreshold
    /\ stats = NoStats
    /\ rt_call = NoRouterCall
    /\ rt_peak = [id \in RouterNodeIds |-> 0]
    /\ rt_streak = [id \in RouterNodeIds |-> 0]
    /\ stats_dict = NoStatsDict

EmptyGraph == [nodes |-> <<>>, edges |-> <<>>]

IdleRepair ==
    /\ cpc = "off"
    /\ full_graph = EmptyGraph
    /\ max_attempts = DefaultMaxRepairPerNode
    /\ initial_result = NoSnapshot
    /\ run_result = NoSnapshot
    /\ classified = "none"
    /\ attempt_no = 0
    /\ attempts_log = <<>>
    /\ initial_state = None
    /\ task_no = 0

\* the components that take no step in a specification
IdleDetector == det_window = window_size /\ recorded = <<>>

IdleOthers == IdleEngine /\ IdleRouter /\ IdleRepair /\ IdleDetector

\* the validator applied to bounded task graphs
InitG ==
    /\ InitGraph
    /\ IdleOthers
    /\ IdleVerify
    /\ IdleExec
    /\ IdleRBGhost
    /\ max_checkpoints = DefaultMaxCheckpoints
    /\ checkpoints = <<>>
    /\ rollback_history = <<>>

SpecGraph == InitG /\ [][NextGraph]_vars

\* the verifier applied to bounded check outcomes
InitV ==
    /\ InitVerify
    /\ IdleOthers
    /\ task_graph = EmptyGraph
    /\ IdleGraph
    /\ IdleExec
    /\ IdleRBGhost
    /\ max_checkpoints = DefaultMaxCheckpoints
    /\ checkpoints = <<>>
    /\ rollback_history = <<>>

SpecVerify == InitV /\ [][NextVerify]_vars

\* the rollback manager under arbitrary call sequences
InitR ==
    /\ InitRB
    /\ IdleOthers
    /\ task_graph = EmptyGraph
    /\ IdleGraph
    /\ IdleVerify
    /\ IdleExec

SpecRB == InitR /\ [][NextRB]_vars

\* execution passes
Init ==
    /\ InitExec
    /\ IdleOthers
    /\ IdleGraph
    /\ IdleVerify
    /\ IdleRBGhost

Next == NextExec

Spec == Init /\ [][Next]_vars

\* the repair engine applied to bounded inputs
InitE ==
    /\ InitEngine
    /\ IdleRouter
    /\ IdleRepair
    /\ IdleDetector
    /\ task_graph = EmptyGraph
    /\ IdleGraph
    /\ IdleVerify
    /\ IdleExec
    /\ IdleRBGhost
    /\ max_checkpoints = DefaultMaxCheckpoints
    /\ checkpoints = <<>>
    /\ rollback_history = <<>>

SpecEngine == InitE /\ [][NextEngine]_vars

\* the router under arbitrary call sequences
InitRt ==
    /\ InitRouter
    /\ IdleEngine
    /\ IdleRepair
    /\ IdleDetector
    /\ task_graph = EmptyGraph
    /\ IdleGraph
    /\ IdleVerify
    /\ IdleRBGhost
    /\ max_checkpoints = DefaultMaxCheckpoints
    /\ checkpoints = <<>>
    /\ rollback_history = <<>>
    /\ max_steps = DefaultMaxSteps
    /\ pc = "off"
    /\ passes = 0
    /\ topo_order = <<>>
    /\ idx = 0
    /\ current_node = None
    /\ node_states = <<>>
    /\ node_results = <<>>
    /\ page_state = FreshPageState
    /\ step_count = 0
    /\ result = NoExecResult
    /\ dom_hashes = <<>>
    /\ performed = {}
    /\ saved = {}

SpecRouter == InitRt /\ [][NextRouter]_vars

\* the router's calls on the nodes of StatsNodes, with one get_stats call
StatsNodes == {PlainNode(1, "NAVIGATE"), [PlainNode(2, "ACT") EXCEPT !.target = TRUE]}

NextStats ==
    \/ \E node \in StatsNodes : Route(node, RouterEnv(0, 0))
    \/ \E tier \in ModelTiers, node_id \in RouterNodeIds :
          RecordCall(tier, node_id, <<100, 50>>)
    \/ \E node_id \in RouterNodeIds : RecordFailure(node_id)
    \/ \E node_id \in RouterNodeIds : RecordSuccess(node_id)
    \/ GetStats

SpecStats == InitRt /\ [][NextStats]_vars

\* run_task with repair on bounded compiled graphs
InitRp ==
    /\ InitRepair
    /\ IdleEngine
    /\ IdleRouter
    /\ IdleDetector
    /\ IdleGraph
    /\ IdleVerify
    /\ IdleRBGhost

SpecRepair == InitRp /\ [][NextRepair]_vars

\* one runner serving MaxTasks tasks in a row
InitRn ==
    /\ InitRunner
    /\ IdleEngine
    /\ IdleRouter
    /\ IdleDetector
    /\ IdleGraph
    /\ IdleVerify
    /\ IdleRBGhost

SpecRunner == InitRn /\ [][NextRunner]_vars

\* ---------------------------------------------- NoProgressDetector alone
\* NoProgressDetector(window_size): the windows a caller may construct
DetectorWindows == 1..window_size

\* NoProgressDetector.__init__
InitDetector ==
    /\ det_window \in DetectorWindows
    /\ dom_hashes = <<>>
    /\ recorded = <<>>

DetectorFrame ==
    UNCHANGED <<gvars, vvars, rbvars, envars, rtvars, cvars, det_window, max_steps,
                pc, passes, topo_order, idx, current_node, node_states,
                node_results, page_state, step_count, result, failure_counts,
                performed, saved>>

\* NoProgressDetector.record_dom_state(page_state)
RecordDomState(dom_elements) ==
    /\ Len(recorded) < MaxRecorded
    /\ dom_hashes' = record_dom_state(dom_hashes, det_window, dom_elements)
    /\ recorded' = Append(recorded, DomDigest(dom_elements))
    /\ DetectorFrame

\* NoProgressDetector.reset
ResetDetector ==
    /\ recorded # <<>>
    /\ dom_hashes' = <<>>
    /\ recorded' = <<>>
    /\ DetectorFrame

NextDetector == (\E dom_elements \in 0..MaxDom : RecordDomState(dom_elements)) \/ ResetDetector

\* a detector under arbitrary sequences of recorded page states
InitDt ==
    /\ InitDetector
    /\ IdleEngine
    /\ IdleRouter
    /\ IdleRepair
    /\ task_graph = EmptyGraph
    /\ IdleGraph
    /\ IdleVerify
    /\ IdleRBGhost
    /\ max_checkpoints = DefaultMaxCheckpoints
    /\ checkpoints = <<>>
    /\ rollback_history = <<>>
    /\ max_steps = DefaultMaxSteps
    /\ pc = "off"
    /\ passes = 0
    /\ topo_order = <<>>
    /\ idx = 0
    /\ current_node = None
    /\ node_states = <<>>
    /\ node_results = <<>>
    /\ page_state = FreshPageState
    /\ step_count = 0
    /\ result = NoExecResult
    /\ failure_counts = <<>>
    /\ performed = {}
    /\ saved = {}

SpecDetector == InitDt /\ [][NextDetector]_vars

\* ------------------------------------------------------------- properties
DeclaredIds(g) == {g.nodes[i].id : i \in 1..Len(g.nodes)}

\* the nodes reachable from S along edges, S included
RECURSIVE ReachableFrom(_, _)
ReachableFrom(es, S) ==
    LET T == S \cup {e[2] : e \in {x \in Range(es) : x[1] \in S}}
    IN  IF T = S THEN S ELSE ReachableFrom(es, T)

HasDirectedCycle(g) ==
    \E e \in Range(g.edges) : e[1] \in ReachableFrom(g.edges, {e[2]})

UniqueIds(g) ==
    \A i, j \in 1..Len(g.nodes) : g.nodes[i].id = g.nodes[j].id => i = j

EndpointsDeclared(g) ==
    \A e \in Range(g.edges) : e[1] \in DeclaredIds(g) /\ e[2] \in DeclaredIds(g)

FieldsPresent(g) ==
    \A i \in 1..Len(g.nodes) : REQUIRED_NODE_FIELDS \subseteq g.nodes[i].keys

TypesValid(g) ==
    \A i \in 1..Len(g.nodes) : g.nodes[i].type \in VALID_NODE_TYPES

SourceIds(g) ==
    {n \in DeclaredIds(g) : ~\E e \in Range(g.edges) : e[2] = n}

AllReachableFromSources(g) ==
    DeclaredIds(g) \subseteq ReachableFrom(g.edges, SourceIds(g))

PassesValidation(g) ==
    /\ g.nodes # <<>>
    /\ FieldsPresent(g)
    /\ TypesValid(g)
    /\ UniqueIds(g)
    /\ EndpointsDeclared(g)
    /\ ~HasDirectedCycle(g)

Position(order, x) == IndexOf(order, x)

\* what get_topological_order relies on: unique ids, declared edge endpoints
\* and no directed cycle
WellFormedDag(g) == UniqueIds(g) /\ EndpointsDeclared(g) /\ ~HasDirectedCycle(g)

\* C1: for every graph with unique ids, declared edge endpoints and no cycle
\* (in particular every graph that passes validation) get_topological_order
\* returns, without raising, a list that holds every node id exactly once and
\* in which u comes before v for every edge (u, v).
C1_TopologicalOrder ==
    (gop = "ordered" /\ WellFormedDag(task_graph)) =>
        /\ ores.ok
        /\ Len(ores.order) = Len(task_graph.nodes)
        /\ Range(ores.order) = DeclaredIds(task_graph)
        /\ \A i, j \in 1..Len(ores.order) : ores.order[i] = ores.order[j] => i = j
        /\ \A e \in Range(task_graph.edges) :
              Position(ores.order, e[1]) < Position(ores.order, e[2])

\* a valid three-node graph whose two edges force an order other than the
\* declaration order
C1_Witness ==
    /\ gop = "ordered"
    /\ PassesValidation(task_graph)
    /\ Len(task_graph.nodes) = 3
    /\ Len(task_graph.edges) = 2
    /\ task_graph.edges[1] # task_graph.edges[2]
    /\ ores.ok
    /\ ores.order # [i \in 1..3 |-> task_graph.nodes[i].id]

\* C2: for a graph with at least one node, validate returns valid = true
\* exactly when every node has id, type, goal and predicate, every type is one
\* of the 8 kinds, ids are unique, every edge endpoint is declared, there is no
\* directed cycle and every node is reachable from the zero-indegree nodes;
\* whenever it returns false the error list is not empty.
C2_ValidateExact ==
    (gop \in {"validated", "validated-autofix"} /\ task_graph.nodes # <<>>) =>
        /\ vres.valid <=> (PassesValidation(task_graph)
                           /\ AllReachableFromSources(task_graph))
        /\ ~vres.valid => vres.errors # <<>>

\* validate accepted a three-node graph with two edges
C2_Witness ==
    /\ gop = "validated-autofix"
    /\ vres.valid
    /\ Len(task_graph.nodes) = 3
    /\ Len(task_graph.edges) = 2
    /\ task_graph.edges[1] # task_graph.edges[2]

\* every check of the three channels is satisfied for the node's type
FullySatisfied(inp) ==
    /\ _check_url_pattern(inp)
    /\ _check_title_match(inp)
    /\ _check_dom_elements(inp)
    /\ HardTypeSignal(inp)
    /\ inp.tier # "no_llm"
    /\ IF inp.llm_client
       THEN inp.response.kind = "number" /\ inp.response.value >= 100
       ELSE inp.n_keywords > 0 /\ inp.n_matches = inp.n_keywords
    /\ \/ inp.node_type = "NAVIGATE" /\ inp.navigation_success
       \/ inp.node_type = "COLLECT" /\ inp.collected_nonempty
       \/ inp.node_type = "EXTRACT" /\ inp.extracted_nonempty
                                    /\ inp.n_present = inp.n_fields

\* C5: verify's confidence is the sum of the three channel scores, each already
\* scaled to its maximum (hard <= 0.6, soft <= 0.3, consistency <= 0.1); it
\* lies in [0, 1], is 1.0 when every check of all three channels is satisfied,
\* passed = (confidence >= threshold), and under the default weights and
\* threshold a fully satisfied node passes.
C5_ConfidenceIsChannelSum ==
    vpc = "verified" =>
        /\ vout.hard_score \in 0..((6 * Scale) \div 10)
        /\ vout.soft_score \in 0..((3 * Scale) \div 10)
        /\ vout.consistency_score \in 0..(Scale \div 10)
        /\ vout.confidence
              = 1000 * (vout.hard_score + vout.soft_score + vout.consistency_score)
        /\ vout.confidence \in 0..(1000 * Scale)
        /\ vout.passed <=> vout.confidence >= threshold * Scale
        /\ FullySatisfied(vin) => (vout.confidence = 1000 * Scale /\ vout.passed)

\* the steps recorded by the checkpoints, oldest first
CheckpointSteps == [i \in 1..Len(checkpoints) |-> checkpoints[i].step]

\* C8: after any sequence of saveCheckpoint, rollbackToNode and rollbackSteps
\* the history never holds more than K entries; a save made when K entries
\* are held evicts exactly the oldest one, and as long as nothing was rolled
\* back the history holds exactly the most recent min(K, saves) checkpoints by
\* step (K+1 saves with capacity K leave the K most recent).
C8_CheckpointBound ==
    /\ [](Len(checkpoints) <= max_checkpoints)
    /\ [](rollback_history = <<>> =>
            CheckpointSteps = [i \in 1..Min2(max_checkpoints, rb_saves) |->
                                  rb_saves - Min2(max_checkpoints, rb_saves) + i - 1])
    /\ [][rb_call'.op = "save_checkpoint" =>
            /\ checkpoints' # <<>>
            /\ checkpoints'[Len(checkpoints')].node_id = rb_call'.arg
            /\ checkpoints'[Len(checkpoints')].step = rb_saves
            /\ SubSeq(checkpoints', 1, Len(checkpoints') - 1)
                  = IF Len(checkpoints) = max_checkpoints
                    THEN Tail(checkpoints) ELSE checkpoints]_vars

\* 11 checkpoints were saved with capacity 10 and the 10 most recent are held
C8_Witness ==
    /\ max_checkpoints = DefaultMaxCheckpoints
    /\ rb_saves = DefaultMaxCheckpoints + 1
    /\ rollback_history = <<>>
    /\ Len(checkpoints) = DefaultMaxCheckpoints
    /\ checkpoints[1].step = 1

HeldFor(node_id) == {i \in 1..Len(checkpoints) : checkpoints[i].node_id = node_id}

Newest(S) == CHOOSE i \in S : \A j \in S : j <= i

\* C9: rollbackToNode(id) on a history holding checkpoints for id returns the
\* newest of them, cuts the history so that it ends with that checkpoint
\* (newer entries removed, older ones kept) and appends exactly one audit
\* record {fromStep = step of the previously newest checkpoint, toStep = step
\* of the returned one, target node = id}.
C9_RollbackToNodeHit ==
    [][(rb_call'.op = "rollback_to_node" /\ HeldFor(rb_call'.arg) # {}) =>
        LET i == Newest(HeldFor(rb_call'.arg))
        IN  /\ rb_call'.ret = checkpoints[i]
            /\ Len(checkpoints') = i
            /\ \A j \in 1..i : checkpoints'[j] = checkpoints[j]
            /\ Len(rollback_history') = Len(rollback_history) + 1
            /\ \A j \in 1..Len(rollback_history) :
                  rollback_history'[j] = rollback_history[j]
            /\ LET a == rollback_history'[Len(rollback_history')]
               IN  /\ a.from_step = checkpoints[Len(checkpoints)].step
                   /\ a.to_step = checkpoints[i].step
                   /\ a.to_node = rb_call'.arg]_vars

\* a rollback returned a checkpoint that was not the newest entry while an
\* older checkpoint of the same node stays in the history
C9_Witness ==
    /\ rb_call.op = "rollback_to_node"
    /\ rb_call.ret # NoCheckpoint
    /\ rb_call.ret.step < rb_saves - 1
    /\ Len(checkpoints) >= 2
    /\ checkpoints[Len(checkpoints)] = rb_call.ret
    /\ \E j \in 1..(Len(checkpoints) - 1) : checkpoints[j].node_id = rb_call.arg
    /\ Len(rollback_history) = 1

\* C10: rollbackToNode(id) for an id with no checkpoint in the current history
\* (never saved, truncated away, or evicted) returns "not found" and leaves
\* the checkpoint history and the audit log unchanged.
C10_RollbackToNodeMiss ==
    [][(rb_call'.op = "rollback_to_node" /\ HeldFor(rb_call'.arg) = {}) =>
        /\ rb_call'.ret = NoCheckpoint
        /\ checkpoints' = checkpoints
        /\ rollback_history' = rollback_history]_vars

\* with capacity 10 and 11 checkpoints saved, a rollback to a node that was
\* saved before but is no longer held came back empty
C10_Witness ==
    /\ max_checkpoints = DefaultMaxCheckpoints
    /\ rb_saves = DefaultMaxCheckpoints + 1
    /\ rollback_history = <<>>
    /\ Len(checkpoints) = DefaultMaxCheckpoints
    /\ rb_call.op = "rollback_to_node"
    /\ rb_call.ret = NoCheckpoint
    /\ rb_call.arg \in rb_ever

\* C3: fail-fast. Once a node is FAILED the pass has stopped with a failure
\* result naming that node, and every node later in the order is still
\* PENDING and has not been acted on.
C3_FailFast ==
    \A i \in 1..Len(topo_order) :
        node_states[topo_order[i]] = "failed" =>
            /\ pc = "done"
            /\ result.kind = "failure"
            /\ result.failed_node = topo_order[i]
            /\ \A j \in (i + 1)..Len(topo_order) :
                  /\ node_states[topo_order[j]] = "pending"
                  /\ topo_order[j] \notin performed

\* the second of three ordered nodes failed after the first succeeded
C3_Witness ==
    /\ pc = "done"
    /\ Len(topo_order) = 3
    /\ node_states[topo_order[1]] = "success"
    /\ node_states[topo_order[2]] = "failed"
    /\ node_states[topo_order[3]] = "pending"
    /\ result.failed_node = topo_order[2]

\* C4: within one pass a node's status only moves PENDING -> RUNNING -> one of
\* SUCCESS, FAILED, SKIPPED, and a terminal status never changes again; a node
\* marked SUCCESS is never marked FAILED afterwards.
C4_StatusMonotonic ==
    [][passes' = passes =>
        \A n \in DOMAIN node_states :
            \/ node_states'[n] = node_states[n]
            \/ node_states[n] = "pending" /\ node_states'[n] = "running"
            \/ /\ node_states[n] = "running"
               /\ node_states'[n] \in {"success", "failed", "skipped"}]_vars

\* C6: in a pass a checkpoint (node id, step, snapshot, environment state) is
\* appended for node n iff n ends the pass SUCCESS: a FAILED node has none,
\* each append is for the node just marked SUCCESS, and after it that node's
\* failure counter in the router is 0.
C6_CheckpointIffSuccess ==
    /\ [](\A n \in DOMAIN node_states :
            /\ node_states[n] = "failed" => n \notin saved
            /\ n \in saved => (node_states[n] = "success"
                               /\ FailureCount(failure_counts, n) = 0)
            /\ (pc = "done" /\ node_states[n] = "success") => n \in saved)
    /\ [][/\ checkpoints' # checkpoints => saved' # saved
          /\ (saved' # saved /\ passes' = passes) =>
                /\ current_node \notin saved
                /\ saved' = saved \cup {current_node}
                /\ checkpoints' # <<>>
                /\ checkpoints'[Len(checkpoints')]
                      = Checkpoint(current_node, step_count, page_state, 0)
                /\ SubSeq(checkpoints', 1, Len(checkpoints') - 1)
                      = IF Len(checkpoints) = max_checkpoints
                        THEN Tail(checkpoints) ELSE checkpoints]_vars

\* a second pass in which a node that had failed before succeeded, was
\* checkpointed and had its counter reset, and then another node failed
C6_Witness ==
    /\ pc = "done"
    /\ passes = 2
    /\ \E n \in saved :
          /\ n \in DOMAIN failure_counts
          /\ failure_counts[n] = 0
          /\ \E i \in 1..Len(checkpoints) : checkpoints[i].node_id = n
    /\ \E m \in DOMAIN node_states : node_states[m] = "failed" /\ m \notin saved

\* C7: once a node's digest has been fed to the detector, a full window of
\* identical digests force-fails the node whatever verification said: it is
\* FAILED with the no-progress reason, no checkpoint is saved and the pass
\* stops with a failure result naming it.
C7_NoProgressForcesFail ==
    [][(/\ pc = "running"
        /\ pc' # "running"
        /\ node_results'[current_node].error = "none"
        /\ detect_no_progress(dom_hashes', window_size)) =>
            /\ node_states'[current_node] = "failed"
            /\ node_results'[current_node].reason = "no-progress"
            /\ checkpoints' = checkpoints
            /\ pc' = "done"
            /\ result'.kind = "failure"
            /\ result'.failed_node = current_node
            /\ result'.error = "no-progress"]_vars

\* a node whose verification passed was force-failed by the detector
C7_Witness ==
    /\ pc = "done"
    /\ current_node \in DOMAIN node_results
    /\ node_results[current_node].reason = "no-progress"
    /\ node_results[current_node].verification = "passed"
    /\ node_states[current_node] = "failed"
    /\ detect_no_progress(dom_hashes, window_size)

\* C14: in any pass the number of nodes executed never exceeds max_steps; when
\* the budget is reached while nodes remain the pass aborts with the step-budget
\* error, which names no failed node, and no further node is executed; a graph
\* of exactly max_steps nodes can still complete successfully.
C14_StepBudget ==
    /\ [](Cardinality(performed) <= max_steps)
    /\ [](result.error = "max-steps-exceeded" =>
            /\ pc = "done"
            /\ result.kind = "error"
            /\ result.failed_node = None
            /\ ~result.success
            /\ step_count = max_steps
            /\ Cardinality(performed) = max_steps
            /\ \A i \in 1..Len(topo_order) :
                  topo_order[i] \notin performed => node_states[topo_order[i]] = "pending")
    /\ [][(pc = "loop" /\ idx <= Len(topo_order) /\ step_count >= max_steps) =>
            (pc' = "done" /\ result'.error = "max-steps-exceeded"
             /\ performed' = performed /\ node_states' = node_states)]_vars
    /\ [][(pc = "loop" /\ idx > Len(topo_order)) =>
            (result'.kind = "success" /\ result'.steps = step_count
             /\ step_count <= max_steps)]_vars

\* a three-node graph stopped by a budget of two after two nodes succeeded
C14_Witness ==
    /\ pc = "done"
    /\ max_steps = SmallStepBudget
    /\ Len(topo_order) = SmallStepBudget + 1
    /\ result.error = "max-steps-exceeded"
    /\ Cardinality(performed) = SmallStepBudget
    /\ node_states[topo_order[Len(topo_order)]] = "pending"

\* the nodes from which some node of S is reachable by a path of 1..d edges
RECURSIVE AncestorsWithin(_, _, _)
AncestorsWithin(es, S, d) ==
    IF d = 0 THEN {}
    ELSE LET P == {e[1] : e \in {x \in Range(es) : x[2] \in S}}
         IN  P \cup AncestorsWithin(es, P, d - 1)

\* ancestors within d hops, the failed node, everything downstream of it
RollbackSet(g, f, d) ==
    AncestorsWithin(g.edges, {f}, d) \cup ReachableFrom(g.edges, {f})

\* C15: for a failed node f of an acyclic graph and a strategy of rollback
\* depth d, compute_rollback_subgraph returns, without duplicates and in the
\* topological order of the original graph, exactly the nodes from which f is
\* reachable by 1..d edges, f itself and every node reachable from f; f is
\* always in the result, even for d = 0 and f a leaf.
C15_RollbackSubgraph ==
    (eop = "planned" /\ eout.strategy # NoStrategy) =>
        LET g == pin.graph
            f == pin.failed_node
            sub == eout.subgraph
            topo == get_topological_order(g.nodes, g.edges).order
        IN  /\ ~eout.raised
            /\ f \in Range(sub)
            /\ Range(sub) = RollbackSet(g, f, eout.depth)
            /\ \A i, j \in 1..Len(sub) :
                  i < j => Position(topo, sub[i]) < Position(topo, sub[j])
            /\ \A e \in Range(g.edges) :
                  (e[1] \in Range(sub) /\ e[2] \in Range(sub)) =>
                      Position(sub, e[1]) < Position(sub, e[2])

\* depth 2 on a three-node graph in which the failed node has one parent
\* and one child: all three nodes are re-run, the failed one in the middle
C15_Witness ==
    /\ eop = "planned"
    /\ eout.depth = 2
    /\ Len(eout.subgraph) = 3
    /\ eout.subgraph[2] = pin.failed_node
    /\ <<eout.subgraph[1], pin.failed_node>> \in Range(pin.graph.edges)
    /\ <<pin.failed_node, eout.subgraph[3]>> \in Range(pin.graph.edges)

LocatorError(inp) ==
    /\ inp.verification_result.kind # "none"
    /\ \E i \in 1..Len(inp.verification_result.error) :
          inp.verification_result.error[i]
              \in {"element", "Element", "selector", "SELECTOR"}

ModalSignature(inp) ==
    Range(inp.page_state.dom_elements)
        \cap {"modal", "popup", "dialog", "overlay"} # {}

\* the confidence carried by the verification result, 0 when there is none
CarriedConfidence(inp) ==
    IF inp.verification_result.kind = "none" THEN 0
    ELSE inp.verification_result.confidence

\* C18: classify_failure returns exactly one FailureType for every input, the
\* one of the first matching rule: locator/selector error text -> GROUNDING;
\* EXTRACT with empty extracted data -> EXTRACTION; COMPUTE with a recorded
\* compute error -> COMPUTE; NAVIGATE/ACT with a modal/overlay signature in the
\* DOM -> STATE; confidence < 0.3 -> PLAN; otherwise UNKNOWN.
C18_ClassifyCascade ==
    eop = "classified" =>
        LET r1 == LocatorError(cin)
            r2 == cin.node_type = "EXTRACT" /\ cin.page_state.extracted_empty
            r3 == cin.node_type = "COMPUTE" /\ cin.page_state.compute_error
            r4 == cin.node_type \in {"NAVIGATE", "ACT"} /\ ModalSignature(cin)
            r5 == CarriedConfidence(cin) < 300
            ft == eout.failure_type
        IN  /\ ft \in FailureTypes
            /\ ft = "grounding_fail" <=> r1
            /\ ft = "extraction_fail" <=> (~r1 /\ r2)
            /\ ft = "compute_fail" <=> (~r1 /\ ~r2 /\ r3)
            /\ ft = "state_fail" <=> (~r1 /\ ~r2 /\ ~r3 /\ r4)
            /\ ft = "plan_fail" <=> (~r1 /\ ~r2 /\ ~r3 /\ ~r4 /\ r5)
            /\ ft = "unknown" <=> (~r1 /\ ~r2 /\ ~r3 /\ ~r4 /\ ~r5)

\* an ACT node with a modal in the DOM and a confidence below 0.3 was
\* classified STATE: the earlier rule won
C18_Witness ==
    /\ eop = "classified"
    /\ cin.node_type = "ACT"
    /\ cin.verification_result.kind = "dict"
    /\ cin.verification_result.confidence < 300
    /\ cin.page_state.dom_elements = <<"div", "modal">>
    /\ eout.failure_type = "state_fail"


\* a node that needs no model: NAVIGATE with a url, COLLECT with a selector,
\* EXTRACT whose every field carries a selector, ACT with a target
SelfSufficient(node) ==
    CASE node.type = "NAVIGATE" -> node.url
      [] node.type = "COLLECT" -> node.selector
      [] node.type = "ACT" -> node.target
      [] node.type = "EXTRACT" ->
            ~(\E i \in DOMAIN node.fields : node.fields[i] # "dict-with-selector")
      [] OTHER -> FALSE

\* the average of min(elements/1000, 1) and min(text length/10000, 1) is
\* strictly above 0.5, in ten-thousandths of a score
AverageAboveHalf(env) ==
    LET element_score == IF env.element_count >= 1000 THEN 10000
                         ELSE 10 * env.element_count
        text_score == IF env.text_length >= 10000 THEN 10000 ELSE env.text_length
    IN  element_score + text_score > 10000

RoutedNode == rt_call.node

\* C19: route is a first-match cascade.  A self-sufficient node gets no_llm
\* whatever its failure counter and the page complexity; otherwise a failure
\* counter at or above the upgrade threshold gives large; otherwise a
\* complexity strictly above 0.5 gives large; otherwise small.  So a NAVIGATE
\* node with a url and an EXTRACT node whose fields have selectors get no_llm,
\* and an EXTRACT node whose fields have no selector gets small when neither
\* the counter nor the complexity escalates.
C19_RouteCascade ==
    rt_call.op = "route" =>
        /\ rt_call.ret =
              IF SelfSufficient(RoutedNode) THEN "no_llm"
              ELSE IF FailureCount(failure_counts, RoutedNode.id) >= upgrade_threshold
                   THEN "large"
              ELSE IF AverageAboveHalf(rt_call.env) THEN "large"
              ELSE "small"
        /\ (RoutedNode.type = "NAVIGATE" /\ RoutedNode.url) => rt_call.ret = "no_llm"
        /\ (RoutedNode.type = "EXTRACT"
              /\ RoutedNode.fields = <<"dict-with-selector">>) => rt_call.ret = "no_llm"
        /\ (RoutedNode.type = "EXTRACT"
              /\ RoutedNode.fields = <<"dict-without-selector">>
              /\ FailureCount(failure_counts, RoutedNode.id) < upgrade_threshold
              /\ ~AverageAboveHalf(rt_call.env)) => rt_call.ret = "small"

\* a self-sufficient EXTRACT node routed on a complex page with its failure
\* counter at the threshold
C19_Witness ==
    /\ rt_call.op = "route"
    /\ RoutedNode.type = "EXTRACT"
    /\ RoutedNode.fields = <<"dict-with-selector">>
    /\ FailureCount(failure_counts, RoutedNode.id) >= upgrade_threshold
    /\ AverageAboveHalf(rt_call.env)
    /\ rt_call.ret = "no_llm"

\* C20: adaptive escalation.  For a node that is not self-sufficient, once
\* record_failure has been called for it as many times as the upgrade
\* threshold (3 by default) with no record_success in between, route returns
\* large whatever the page complexity; record_success resets the node's
\* counter to 0, and from then on the counter rule stays silent until that
\* many further failures are recorded.
C20_AdaptiveEscalation ==
    /\ [](rt_call.op = "route" /\ ~SelfSufficient(RoutedNode) =>
            /\ rt_streak[RoutedNode.id] >= upgrade_threshold
                  => rt_call.ret = "large"
            /\ (rt_streak[RoutedNode.id] < upgrade_threshold
                  /\ ~AverageAboveHalf(rt_call.env)) => rt_call.ret = "small")
    /\ [][rt_call'.op = "record_success" =>
            FailureCount(failure_counts', rt_call'.node.id) = 0]_vars
    /\ [][rt_call'.op = "record_failure" =>
            FailureCount(failure_counts', rt_call'.node.id)
                = rt_streak'[rt_call'.node.id]]_vars

\* the default threshold, three failures in a row, a simple page: large
C20_Witness ==
    /\ rt_call.op = "route"
    /\ ~SelfSufficient(RoutedNode)
    /\ upgrade_threshold = DefaultUpgradeThreshold
    /\ rt_streak[RoutedNode.id] = DefaultUpgradeThreshold
    /\ rt_call.env = RouterEnv(0, 0)
    /\ rt_call.ret = "large"

\* a node that had reached the threshold, routed to small after a success
C20_ResetReached ==
    /\ rt_call.op = "route"
    /\ ~SelfSufficient(RoutedNode)
    /\ rt_peak[RoutedNode.id] >= upgrade_threshold
    /\ rt_streak[RoutedNode.id] = upgrade_threshold - 1
    /\ rt_call.ret = "small"


\* the attempts that led to a sub-pass
SubPassAttempts == {i \in DOMAIN attempts_log : attempts_log[i].repaired}

\* the strategy names of the classified failure type, in list order
StrategyNames ==
    [i \in DOMAIN _init_repair_strategies(classified) |->
        _init_repair_strategies(classified)[i].strategy_name]

\* steps a pass can still take: three per node left, one to leave the loop
PassRank ==
    IF pc \notin {"loop", "running", "checkpoint"} THEN 0
    ELSE 3 * (Len(topo_order) + 1 - idx)
            + (CASE pc = "loop" -> 1 [] pc = "running" -> 0 [] OTHER -> -1)

PassRankBound == 3 * MaxNodes + 1

\* a bound on the steps run_task can still take: the passes and attempts left
Rank ==
    CASE cpc = "ready" ->
            max_attempts * (PassRankBound + 3) + PassRankBound + 4
      [] cpc = "first-pass" ->
            max_attempts * (PassRankBound + 3) + 3 + PassRank
      [] cpc = "attempt" ->
            Max2(max_attempts - attempt_no, 0) * (PassRankBound + 3) + 2
      [] cpc = "sub-pass" ->
            (max_attempts - attempt_no - 1) * (PassRankBound + 3) + 3 + PassRank
      [] OTHER -> 0

\* C11: the repair coordinator terminates.  For one failed pass it makes at
\* most max_attempts repair attempts and so at most max_attempts sub-passes;
\* the k-th attempt uses the k-th strategy of the classified failure type, no
\* strategy twice; when the attempt index has no strategy the loop ends
\* without another attempt; and every step of run_task lowers a natural
\* number that is 0 only once run_task has returned, so it always returns.
C11_CoordinatorTerminates ==
    /\ [](Rank \in Nat /\ (Rank = 0 <=> cpc = "returned"))
    /\ [][Rank' < Rank]_vars
    /\ [](/\ Len(attempts_log) <= max_attempts
          /\ Cardinality(SubPassAttempts) <= max_attempts
          /\ cpc # "off" => passes <= 1 + Cardinality(SubPassAttempts)
          /\ Len(attempts_log) <= Len(StrategyNames)
          /\ \A i \in DOMAIN attempts_log :
                /\ attempts_log[i].strategy = StrategyNames[i]
                /\ \A j \in DOMAIN attempts_log :
                      i # j => attempts_log[i].strategy # attempts_log[j].strategy)
    /\ [][(cpc = "attempt" /\ attempt_no >= Len(StrategyNames)) =>
            (cpc' = "returned" /\ attempts_log' = attempts_log /\ passes' = passes)]_vars

\* both strategies of a failure type were tried, the first led to a sub-pass
\* that failed, and the loop stopped at the third index for lack of a strategy
C11_Witness ==
    /\ cpc = "returned"
    /\ max_attempts = DefaultMaxRepairPerNode
    /\ Len(attempts_log) = 2
    /\ attempts_log[1].repaired
    /\ attempt_no = 2
    /\ passes = 2

\* C12: when no repair attempt leads to a successful sub-pass, run_task
\* returns the failure result of the first pass: the result handed to the
\* coordinator is the first pass's result with its node_results, it is never
\* altered afterwards, it is what is returned, and no exception leaves the
\* coordinator.
C12_ExhaustionReturnsOriginal ==
    /\ [](run_result.result.kind # "exception")
    /\ []((cpc = "returned" /\ initial_result # NoSnapshot
              /\ ~(passes >= 2 /\ result.success)) =>
            /\ run_result = initial_result
            /\ ~run_result.result.success
            /\ passes = 1 => run_result = Snapshot(result, node_results))
    /\ [][(cpc = "first-pass" /\ initial_result' # initial_result) =>
            initial_result' = Snapshot(result, node_results)]_vars
    /\ [][cpc # "first-pass" => initial_result' = initial_result]_vars

\* a sub-pass ran and failed with a result unlike the first pass's, and the
\* first pass's result was returned
C12_Witness ==
    /\ cpc = "returned"
    /\ passes >= 2
    /\ ~result.success
    /\ Snapshot(result, node_results) # initial_result
    /\ run_result = initial_result
    /\ run_result.result.kind = "failure"

\* C13: a pass that ends in an error result (step budget used up, or the
\* topological sort failed) names no failed node, and run_task returns that
\* result as it is without invoking the coordinator: no classification, no
\* rollback, no repair attempt and no sub-pass.
C13_ErrorsSkipRepair ==
    /\ []((pc = "done" /\ result.kind = "error") => result.failed_node = None)
    /\ []((cpc = "returned" /\ passes = 1 /\ result.kind = "error") =>
            /\ run_result = Snapshot(result, node_results)
            /\ initial_result = NoSnapshot
            /\ classified = "none"
            /\ attempts_log = <<>>
            /\ rollback_history = <<>>)
    /\ [][(cpc = "first-pass" /\ pc = "done" /\ result.kind = "error") =>
            (cpc' = "returned" /\ passes' = passes /\ checkpoints' = checkpoints)]_vars

\* the step budget ran out in the first pass and run_task returned
C13_Witness ==
    /\ cpc = "returned"
    /\ result.error = "max-steps-exceeded"
    /\ run_result.result.error = "max-steps-exceeded"
    /\ run_result.result.failed_node = None
    /\ passes = 1

\* the failed node of the first pass
FailedNode ==
    full_graph.nodes[_get_node_by_id(full_graph, initial_result.result.failed_node)]

\* C17: in a repair attempt a rollback to the first node of the rollback
\* subgraph is attempted iff the depth is above 0; when no checkpoint is
\* found the environment is reset to the saved initial state (cookies and
\* storage cleared, initial cookies and URL restored) iff the failed node is
\* not idempotent.
C17_RollbackThenReset ==
    \A i \in DOMAIN attempts_log :
        /\ attempts_log[i].rollback # "none" <=> attempts_log[i].depth > 0
        /\ attempts_log[i].rollback = "miss" =>
              IF FailedNode.idempotent
              THEN attempts_log[i].reset_calls = <<>>
              ELSE attempts_log[i].reset_calls =
                      <<"clear_cookies", "clear_local_storage", "set_cookies",
                        "navigate">>


\* C21: whenever a node is marked FAILED in a pass (failed verification, the
\* no-progress trigger, or a caught exception) the router's failure counter
\* of that node goes up by exactly one in that execution.
C21_FailureRecorded ==
    [][(pc \in {"running", "checkpoint"} /\ node_states'[current_node] = "failed") =>
          FailureCount(failure_counts', current_node)
              = FailureCount(failure_counts, current_node) + 1]_vars


\* the per-tier call counter of a tier
TierCalls(st, tier) ==
    CASE tier = "no_llm" -> st.no_llm_calls
      [] tier = "small" -> st.small_model_calls
      [] OTHER -> st.large_model_calls

\* C22: each record_call(tier, node_id, in, out) raises by exactly one the
\* total-call counter, the call counter of that tier and the call counter of
\* that node, and leaves the accumulated cost alone for tier no_llm; so total
\* calls always equals the sum of the three per-tier counters.
C22_RecordCallCounts ==
    /\ [][rt_call'.op = "record_call" =>
            /\ stats'.total_calls = stats.total_calls + 1
            /\ TierCalls(stats', rt_call'.tier) = TierCalls(stats, rt_call'.tier) + 1
            /\ FailureCount(stats'.calls_by_node, rt_call'.node.id)
                  = FailureCount(stats.calls_by_node, rt_call'.node.id) + 1
            /\ rt_call'.tier = "no_llm" => stats'.total_cost = stats.total_cost]_vars
    /\ [](stats.total_calls = stats.no_llm_calls + stats.small_model_calls
                                  + stats.large_model_calls)

\* C23: with window W, detect_no_progress is true exactly when at least W
\* digests have been recorded and the last W of them are identical; for W = 3 it
\* is false after one and two digests, true after a third identical one, false
\* after a differing fourth, and false until three in a row are identical again
LastIdentical(seq, w) ==
    /\ Len(seq) >= w
    /\ \A i \in (Len(seq) - w + 1)..Len(seq) : seq[i] = seq[Len(seq)]

C23_DetectWindow ==
    /\ detect_no_progress(dom_hashes, det_window) <=> LastIdentical(recorded, det_window)
    /\ det_window = 3 =>
          /\ Len(recorded) \in {1, 2} => ~detect_no_progress(dom_hashes, det_window)
          /\ (Len(recorded) = 3 /\ recorded[1] = recorded[2] /\ recorded[2] = recorded[3])
                => detect_no_progress(dom_hashes, det_window)
          /\ (Len(recorded) >= 4 /\ recorded[Len(recorded)] # recorded[Len(recorded) - 1])
                => ~detect_no_progress(dom_hashes, det_window)
          /\ (Len(recorded) >= 4 /\ recorded[Len(recorded) - 1] # recorded[Len(recorded) - 2])
                => ~detect_no_progress(dom_hashes, det_window)

\* three identical digests, a differing fourth, then three identical in a row again
C23_Witness ==
    /\ det_window = 3
    /\ Len(recorded) = 6
    /\ recorded[1] = recorded[2] /\ recorded[2] = recorded[3]
    /\ recorded[4] # recorded[3]
    /\ recorded[4] = recorded[5] /\ recorded[5] = recorded[6]
    /\ detect_no_progress(dom_hashes, det_window)

\* C24: for a graph with valid nodes and declared edge endpoints that has a
\* directed cycle, validate returns invalid with a cycle error; with auto-fix it
\* runs the fix once, re-validates the topology once and, the cycle still being
\* there, returns invalid with the auto-fix-exhausted error as well
WellFormedCyclic(g) ==
    /\ FieldsPresent(g)
    /\ TypesValid(g)
    /\ UniqueIds(g)
    /\ EndpointsDeclared(g)
    /\ HasDirectedCycle(g)

Occurrences(seq, x) == Cardinality({i \in 1..Len(seq) : seq[i] = x})

C24_CycleRejected ==
    (gop \in {"validated", "validated-autofix"} /\ WellFormedCyclic(task_graph)) =>
        /\ ~vres.valid
        /\ "cycle" \in Range(vres.errors)
        /\ gop = "validated" =>
              /\ vres.errors = <<"cycle">>
              /\ Occurrences(vres.warnings, "auto-fix") = 0
        /\ gop = "validated-autofix" =>
              /\ vres.errors = <<"cycle", "auto-fix-exhausted">>
              /\ Occurrences(vres.warnings, "auto-fix") = 1

\* auto-fix validation of a graph whose cycle runs through two nodes
C24_Witness ==
    /\ gop = "validated-autofix"
    /\ WellFormedCyclic(task_graph)
    /\ \E e \in Range(task_graph.edges) : e[1] # e[2] /\ <<e[2], e[1]>> \in Range(task_graph.edges)
    /\ ~vres.valid

\* C25: when the environment raises while a node executes, the pass ends
\* without raising, the node is FAILED and its result holds the captured error
\* text, and the pass returns a failure result that names the node and whose
\* error is that captured text
C25_ExceptionReported ==
    \A id \in DOMAIN node_results :
        (pc = "done" /\ node_results[id].error # "none") =>
            /\ node_states[id] = "failed"
            /\ result.kind = "failure"
            /\ result.failed_node = id
            /\ result.error = node_results[id].error

\* C26: an oracle failure during verify (the call raises, or the reply holds
\* neither a number nor a yes) gives a soft score of exactly 0 and verify
\* still returns its result; with the routed tier no_llm the soft score is 0
OracleFailed(inp) ==
    /\ inp.tier # "no_llm"
    /\ inp.llm_client
    /\ inp.response.kind \in {"raise", "other"}

C26_OracleFailureZero ==
    vpc = "verified" =>
        /\ vin.tier = "no_llm" => vout.soft_score = 0
        /\ OracleFailed(vin) => vout.soft_score = 0

\* C27: a pass on a graph that validation rejects (a bad type, a missing
\* field, duplicate ids, a dangling edge or a cycle) performs no node's action
\* and returns an error result
C27_RevalidatesInput ==
    (passes > 0 /\ ~PassesValidation(task_graph)) =>
        /\ performed = {}
        /\ pc = "done" => result.kind = "error"

\* the rollback set of the latest repair attempt
LatestRollbackSet ==
    RollbackSet(full_graph, initial_result.result.failed_node,
                attempts_log[Len(attempts_log)].depth)

Inside(e, S) == e[1] \in S /\ e[2] \in S

\* C28: no step of a run changes the submitted task graph, and a pass does not
\* change the graph it executes: the first pass runs the submitted graph, and a
\* sub-pass runs a graph whose nodes are exactly the submitted nodes inside the
\* rollback subgraph and whose edges are exactly the submitted edges with both
\* endpoints inside it
C28_GraphNotMutated ==
    /\ [][full_graph' = full_graph]_vars
    /\ [][(pc \in {"loop", "running", "checkpoint"}) => (task_graph' = task_graph)]_vars
    /\ [](cpc = "first-pass" => task_graph = full_graph)
    /\ [](cpc = "sub-pass" =>
            /\ DeclaredIds(task_graph) = LatestRollbackSet
            /\ Len(task_graph.nodes) = Cardinality(LatestRollbackSet)
            /\ Range(task_graph.nodes) \subseteq Range(full_graph.nodes)
            /\ Range(task_graph.edges)
                  = {e \in Range(full_graph.edges) : Inside(e, LatestRollbackSet)}
            /\ Len(task_graph.edges)
                  = Cardinality({i \in DOMAIN full_graph.edges :
                                    Inside(full_graph.edges[i], LatestRollbackSet)}))

\* a finished sub-pass on a graph with fewer nodes and fewer, but some, edges
\* than the submitted one
C28_Witness ==
    /\ cpc = "sub-pass"
    /\ pc = "done"
    /\ Len(task_graph.nodes) < Len(full_graph.nodes)
    /\ Len(task_graph.edges) < Len(full_graph.edges)
    /\ Len(task_graph.edges) > 0

\* the actions of a strategy tried in list order from action i on: true at the
\* first one that reports success, false when the list is used up
RECURSIVE FirstReportedSuccess(_, _, _)
FirstReportedSuccess(actions, outcomes, i) ==
    IF i > Len(actions) THEN FALSE
    ELSE IF _execute_repair_action(actions[i], outcomes[i]) THEN TRUE
    ELSE FirstReportedSuccess(actions, outcomes, i + 1)

\* C29: in a repair attempt a sub-pass starts only when apply_repair returned
\* true in that attempt; when it returned false the coordinator goes on to the
\* next attempt and no node runs; apply_repair returns true iff some action of
\* the strategy, tried in list order, reports success
C29_SubPassAfterRepair ==
    /\ [][(cpc = "attempt" /\ attempts_log' # attempts_log) =>
            LET a == attempts_log'[Len(attempts_log')]
            IN  /\ Len(attempts_log') = Len(attempts_log) + 1
                /\ a.repaired <=> (cpc' = "sub-pass" /\ passes' = passes + 1)
                /\ ~a.repaired =>
                      /\ cpc' = "attempt"
                      /\ attempt_no' = attempt_no + 1
                      /\ passes' = passes
                      /\ performed' = performed
                      /\ node_states' = node_states]_vars
    /\ [][(cpc # "ready" /\ passes' # passes) =>
            /\ cpc = "attempt"
            /\ Len(attempts_log') = Len(attempts_log) + 1
            /\ attempts_log'[Len(attempts_log')].repaired]_vars
    /\ [](cpc = "attempt" => pc = "done")
    /\ []((cpc = "attempt" /\ select_repair_strategy(classified, attempt_no) # NoStrategy) =>
            LET strategy == select_repair_strategy(classified, attempt_no)
            IN  \A outcomes \in [1..Len(strategy.actions) -> BrowserOutcomes] :
                    apply_repair(strategy, outcomes)
                        <=> FirstReportedSuccess(strategy.actions, outcomes, 1))

\* a first attempt whose repair was applied and whose sub-pass ran and failed,
\* then a second attempt whose repair was not applied: two passes in all
C29_Witness ==
    /\ Len(attempts_log) = 2
    /\ attempts_log[1].repaired
    /\ ~attempts_log[2].repaired
    /\ attempt_no = 2
    /\ passes = 2
    /\ pc = "done"

\* C30: the coordinator classifies a failed pass from the page state the pass
\* accumulated and the failed node's recorded verification or error: a node
\* that failed with locator/selector error text is GROUNDING; otherwise a
\* COMPUTE node whose pass recorded a compute error is COMPUTE and a
\* NAVIGATE/ACT node whose DOM carries a modal signature is STATE
C30_ClassifiesFromPass ==
    eop = "pass-classified" =>
        /\ LocatorError(cin) => eout.failure_type = "grounding_fail"
        /\ (~LocatorError(cin) /\ cin.node_type = "COMPUTE" /\ cin.page_state.compute_error)
              => eout.failure_type = "compute_fail"
        /\ (~LocatorError(cin) /\ cin.node_type \in {"NAVIGATE", "ACT"} /\ ModalSignature(cin))
              => eout.failure_type = "state_fail"

\* when a node becomes ready, as a pair: a node without incoming edges is
\* ready at the start, in its place in the node list; any other node is ready
\* when the last of its predecessors is emitted, at the last edge from that
\* predecessor to it
DeclaredAt(g, v) == CHOOSE i \in 1..Len(g.nodes) : g.nodes[i].id = v

ReadyAt(g, order, v) ==
    LET preds == {e[1] : e \in {x \in Range(g.edges) : x[2] = v}}
    IN  IF preds = {} THEN <<0, DeclaredAt(g, v)>>
        ELSE LET p == CHOOSE q \in preds :
                        \A r \in preds : Position(order, r) <= Position(order, q)
             IN  <<Position(order, p),
                   CHOOSE i \in DOMAIN g.edges :
                       /\ g.edges[i] = <<p, v>>
                       /\ \A j \in DOMAIN g.edges : g.edges[j] = <<p, v>> => j <= i>>

Earlier(a, b) == a[1] < b[1] \/ (a[1] = b[1] /\ a[2] < b[2])

\* C31: get_topological_order emits the nodes first-in-first-out in the order
\* in which they become ready: the nodes without incoming edges first, in
\* declaration order, then each node in the order in which it was freed; the
\* order is a function of the graph alone
C31_FifoOrder ==
    (gop = "ordered" /\ WellFormedDag(task_graph)) =>
        /\ ores = get_topological_order(task_graph.nodes, task_graph.edges)
        /\ ores.ok
        /\ \A i, j \in 1..Len(ores.order) :
              i < j => Earlier(ReadyAt(task_graph, ores.order, ores.order[i]),
                               ReadyAt(task_graph, ores.order, ores.order[j]))

\* two nodes freed by the first node, emitted in edge order against their
\* declaration order
C31_Witness ==
    /\ gop = "ordered"
    /\ WellFormedDag(task_graph)
    /\ ores.ok
    /\ Len(ores.order) = 3
    /\ task_graph.edges = <<<<ores.order[1], ores.order[2]>>, <<ores.order[1], ores.order[3]>>>>
    /\ DeclaredAt(task_graph, ores.order[3]) < DeclaredAt(task_graph, ores.order[2])

\* C32: rollback_steps(n) on a history of length len cuts it to the prefix
\* that ends at index max(0, len - n - 1) (counted from 0), returns the
\* checkpoint at that index and appends one audit record; a history that holds
\* a checkpoint is never emptied; on an empty history it returns nothing and
\* changes nothing
C32_RollbackSteps ==
    [][rb_call'.op = "rollback_steps" =>
          LET n == rb_call'.arg
              len == Len(checkpoints)
              target == Max2(0, len - n - 1) + 1
          IN  IF len = 0
              THEN /\ rb_call'.ret.node_id = None
                   /\ checkpoints' = checkpoints
                   /\ rollback_history' = rollback_history
              ELSE /\ checkpoints' = SubSeq(checkpoints, 1, target)
                   /\ checkpoints' # <<>>
                   /\ rb_call'.ret = checkpoints[target]
                   /\ Len(rollback_history') = Len(rollback_history) + 1]_vars

\* C32 as the code has it: the above for n >= 1; for n <= 0, as on an empty
\* history, rollback_steps returns nothing and changes neither the history nor
\* the audit log
C32_RollbackStepsPositive ==
    [][rb_call'.op = "rollback_steps" =>
          LET n == rb_call'.arg
              len == Len(checkpoints)
              target == Max2(0, len - n - 1) + 1
          IN  IF len = 0 \/ n <= 0
              THEN /\ rb_call'.ret.node_id = None
                   /\ checkpoints' = checkpoints
                   /\ rollback_history' = rollback_history
              ELSE /\ checkpoints' = SubSeq(checkpoints, 1, target)
                   /\ checkpoints' # <<>>
                   /\ rb_call'.ret = checkpoints[target]
                   /\ Len(rollback_history') = Len(rollback_history) + 1
                   /\ rollback_history'[Len(rollback_history')].steps_back = n
                   /\ SubSeq(rollback_history', 1, Len(rollback_history))
                         = rollback_history]_vars

\* going back two steps on a shorter history: the oldest checkpoint is
\* returned and is all that is left
C32_Witness ==
    /\ rb_call.op = "rollback_steps"
    /\ rb_call.arg = 2
    /\ Len(checkpoints) = 1
    /\ rb_call.ret = checkpoints[1]
    /\ rollback_history # <<>>
    /\ rollback_history[Len(rollback_history)].steps_back = 2
    /\ rollback_history[Len(rollback_history)].from_step
          # rollback_history[Len(rollback_history)].to_step

\* C40: a graph that passes the field, type, unique-id, edge-endpoint and
\* cycle checks passes the reachability check too: validate reports no
\* unreachable node and never falls back to the first declared node as start
C40_ReachabilityRedundant ==
    (/\ gop \in {"validated", "validated-autofix"}
     /\ FieldsPresent(task_graph)
     /\ TypesValid(task_graph)
     /\ WellFormedDag(task_graph)) =>
        /\ "unreachable-node" \notin Range(vres.errors)
        /\ "no-start-node" \notin Range(vres.warnings)
        /\ _validate_reachability(task_graph.nodes, task_graph.edges)
        /\ ~NoStartNode(task_graph.nodes, task_graph.edges)
              \/ task_graph.nodes = <<>>
        /\ task_graph.nodes # <<>> => vres.valid

\* a valid chain of three nodes: the last is reached through the second only
C40_Witness ==
    /\ gop = "validated"
    /\ vres.valid
    /\ Len(task_graph.nodes) = 3
    /\ Len(task_graph.edges) = 2
    /\ task_graph.edges[1][2] = task_graph.edges[2][1]
    /\ task_graph.edges[1][1] # task_graph.edges[2][2]

\* C34: for the failure type of a repair attempt, when the table holds a
\* strategy for it, some behaviour of the browser makes apply_repair return
\* true for one of the type's strategies, so that the sub-pass can be reached
C34_RepairCanSucceed ==
    (eop = "planned" /\ _init_repair_strategies(pin.failure_type) # <<>>) =>
        \E i \in DOMAIN _init_repair_strategies(pin.failure_type) :
            LET strategy == _init_repair_strategies(pin.failure_type)[i]
            IN  \E outcomes \in [1..Len(strategy.actions) -> BrowserOutcomes] :
                    apply_repair(strategy, outcomes)

\* the type of a declared node
TypeOf(g, id) == g.nodes[_get_node_by_id(g, id)].type

\* C35: in a pass that starts with an empty detector window only a COLLECT
\* action changes the element list, and the pass cannot succeed over three
\* node executions unless the list changed at the second or the third of
\* them: a third node executed with the list unchanged is force-failed
C35_ProgressNeedsCollect ==
    /\ [][(pc = "running" /\ page_state'.dom_elements # page_state.dom_elements)
            => CurrentType = "COLLECT"]_vars
    /\ []((passes = 1 /\ Len(dom_hashes) = window_size) =>
            /\ (pc = "done" /\ result.kind = "success") =>
                  /\ \E i \in 2..window_size : dom_hashes[i] # dom_hashes[i - 1]
                  /\ \E id \in performed : TypeOf(task_graph, id) = "COLLECT"
            /\ (pc \in {"checkpoint", "done"} /\ detect_no_progress(dom_hashes, window_size)) =>
                  node_states[current_node] = "failed")

\* a first pass of three nodes that succeeded: the last one a COLLECT whose
\* list differs from the one before
C35_Witness ==
    /\ passes = 1
    /\ pc = "done"
    /\ result.kind = "success"
    /\ Cardinality(performed) = 3
    /\ dom_hashes[1] = dom_hashes[2]
    /\ dom_hashes[3] # dom_hashes[2]
    /\ TypeOf(task_graph, topo_order[3]) = "COLLECT"

\* C36: the detector window is empty at the start of every execute call, so
\* a node is force-failed for lack of progress only on digests of the current
\* pass, at least window_size of them
C36_WindowPerPass ==
    /\ [](\A id \in DOMAIN node_results :
            node_results[id].reason = "no-progress" =>
                Cardinality(performed) >= window_size)
    /\ [][passes' = passes + 1 => dom_hashes' = <<>>]_vars

\* C38: a sub-pass runs exactly the nodes of the rollback subgraph, each
\* once, in an order in which u comes before v whenever the submitted graph
\* has a directed path from u to v
C38_SubPassOrder ==
    /\ [](cpc = "sub-pass" =>
            /\ Range(topo_order) = LatestRollbackSet
            /\ \A i, j \in 1..Len(topo_order) : topo_order[i] = topo_order[j] => i = j
            /\ \A i, j \in 1..Len(topo_order) :
                  (i # j /\ topo_order[j] \in ReachableFrom(full_graph.edges, {topo_order[i]}))
                      => i < j
            /\ \A i, j \in 1..Len(topo_order) :
                  (i < j /\ topo_order[j] \in performed) => topo_order[i] \in performed
            /\ (pc = "done" /\ result.success) => performed = LatestRollbackSet)
    /\ [][(cpc = "sub-pass" /\ performed' # performed) =>
            \E n \in Range(topo_order) \ performed : performed' = performed \cup {n}]_vars

\* a successful sub-pass over the failed node and the node that depends on it,
\* leaving out the node before it
C38_Witness ==
    /\ cpc = "sub-pass"
    /\ pc = "done"
    /\ result.success
    /\ Len(topo_order) = 2
    /\ Len(full_graph.nodes) = 3
    /\ topo_order[1] = initial_result.result.failed_node
    /\ <<topo_order[1], topo_order[2]>> \in Range(full_graph.edges)
    /\ performed = {topo_order[1], topo_order[2]}

\* C33: the dict get_stats returned reads the same after any later route,
\* record_call, record_failure or record_success as when it was returned,
\* the per-node call counts included
C33_SnapshotImmutable ==
    stats_dict.taken => ReadStatsDict(stats_dict, stats) = stats_dict.returned

\* C37: a checkpoint rollback_to_node returns during the repair of a task was
\* saved during a pass of that task: before any sub-pass of the task, a
\* rollback hit targets a node the task's own first pass checkpointed
C37_CheckpointOfSameTask ==
    [][(/\ cpc = "attempt"
        /\ Len(attempts_log') = Len(attempts_log) + 1
        /\ attempts_log'[Len(attempts_log')].rollback = "hit"
        /\ \A i \in 1..Len(attempts_log) : ~attempts_log[i].repaired)
       => (attempts_log'[Len(attempts_log')].target \in saved)]_vars

\* C39: without a rollback the repair sub-pass starts from the environment
\* snapshot of the failed pass, so what earlier nodes collected is still there
C39_SubPassKeepsEvidence ==
    [][(/\ cpc = "attempt"
        /\ cpc' = "sub-pass"
        /\ attempts_log = <<>>
        /\ attempts_log'[1].rollback = "none")
       => (page_state' = page_state)]_vars

====
